---- MODULE Spec2Model ----
(***************************************************************************)
(* A model of the course-material RAG pipeline:                            *)
(*   - rag/cooking_data/textbook_to_html.py : batch PDF -> HTML conversion *)
(*     with the extraction cascade (specification Spec),                   *)
(*   - is_low_yield as a pure function (specification SpecLowYield),       *)
(*   - rag/eating_data/encode_corpus.py html_to_textbook_docs              *)
(*     (specification SpecChunk),                                          *)
(*   - rag/mini.py build_hybrid_retriever_for_subset                       *)
(*     (specification SpecRetrieve),                                       *)
(*   - the three ingest entry points encode_corpus.py,                     *)
(*     encoding_html_to_faiss.py, ingest_slides_html.py                    *)
(*     (specification SpecIngest).                                         *)
(* Every specification runs over the same variables; the variables of the  *)
(* parts a specification does not exercise stay at their idle values.      *)
(***************************************************************************)
EXTENDS Integers, Sequences, FiniteSets, TLC

VARIABLES
    \* ---- textbook_to_html.py: command line and environment
    workers, npdfs, enable_ocr, text_only, has_mutool, has_ocrmypdf,
    \* ---- textbook_to_html.py: main
    mainPc, results, reportPrinted, fut,
    \* ---- textbook_to_html.py: one cascade per input file
    pc, pages, invoked, written, outKind, tmpFiles, status,
    \* ---- is_low_yield applied to drawn inputs
    lyText, lyPages, lyThr, lyRes,
    \* ---- encode_corpus.py: html_to_textbook_docs over one document
    chDoc, chPc, chIdx, chCurrent, chSections, chDocs,
    \* ---- mini.py: build_hybrid_retriever_for_subset and one query
    rtSubset, rtK, rtPc, rtLex, rtDense, rtResult,
    \* ---- the ingest scripts: input files, index location, manifest
    fileVer, idxDir, idxFaiss, idxChunks, manifest,
    \* ---- the ingest scripts: what is noted of the runs
    runs, edits, edited, lastRun,
    \* ---- mini.py main: the corpus, the request loop, what it has done
    qDocs, qPc, qReq, qSubset, qOut, qBuilt, qCalls, qReqs,
    \* ---- mini.py load_index: the index location and the result
    ldDir, ldManifest, ldFaiss, ldDim, ldRes,
    \* ---- xml_to_html_paragraphs: the runs, the loop, lines and paragraphs
    xItems, xPc, xSorted, xIdx, curr_p, curr_y, line_tokens, out_lines,
    paragraphs, xLineNo, xParaNo,
    \* ---- html_to_slide_docs (both scripts): the divs, the chunker, the chunks
    sDivs, sPc, sBy, sDocs,
    \* ---- the index build of the three mains, call by call
    bScript, bN, bHasIndex, bPc, bNext, bBatches, bDisk,
    \* ---- the output paths convert_one gives the input files
    stPdfs, stOut, stXml,
    \* ---- the word windows of one section's text
    wSite, wTarget, wWords, wPc, wI, wDocs,
    \* ---- parse_quiz_filters: the request text, the filters read from it
    pText, pPc, pBook, pChapters,
    \* ---- the embedding provider of the ingest run that wrote the manifest
    fRuns, fScript, fKey, fForce, fEmbed

cliVars  == <<workers, npdfs, enable_ocr, text_only, has_mutool, has_ocrmypdf>>
mainVars == <<mainPc, results, reportPrinted, fut>>
casVars  == <<pc, pages, invoked, written, outKind, tmpFiles, status>>
convVars == <<cliVars, mainVars, casVars>>
lyVars   == <<lyText, lyPages, lyThr, lyRes>>
chVars   == <<chDoc, chPc, chIdx, chCurrent, chSections, chDocs>>
rtVars   == <<rtSubset, rtK, rtPc, rtLex, rtDense, rtResult>>
ingVars  == <<fileVer, idxDir, idxFaiss, idxChunks, manifest, runs, edits, edited, lastRun>>
qzVars   == <<qDocs, qPc, qReq, qSubset, qOut, qBuilt, qCalls, qReqs>>
ldVars   == <<ldDir, ldManifest, ldFaiss, ldDim, ldRes>>
xmlVars  == <<xItems, xPc, xSorted, xIdx, curr_p, curr_y, line_tokens, out_lines,
              paragraphs, xLineNo, xParaNo>>
slVars   == <<sDivs, sPc, sBy, sDocs>>
bVars    == <<bScript, bN, bHasIndex, bPc, bNext, bBatches, bDisk>>
stVars   == <<stPdfs, stOut, stXml>>
wnVars   == <<wSite, wTarget, wWords, wPc, wI, wDocs>>
psVars   == <<pText, pPc, pBook, pChapters>>
fmVars   == <<fRuns, fScript, fKey, fForce, fEmbed>>
vars     == <<convVars, lyVars, chVars, rtVars, ingVars, qzVars,
              ldVars, xmlVars, slVars, bVars, stVars, wnVars, psVars, fmVars>>
\* what a step of one part leaves alone
nonConvVars == <<lyVars, chVars, rtVars, ingVars, qzVars, ldVars,
                xmlVars, slVars, bVars, stVars, wnVars, psVars, fmVars>>
nonLyVars == <<convVars, chVars, rtVars, ingVars, qzVars, ldVars,
                xmlVars, slVars, bVars, stVars, wnVars, psVars, fmVars>>
nonChVars == <<convVars, lyVars, rtVars, ingVars, qzVars, ldVars,
                xmlVars, slVars, bVars, stVars, wnVars, psVars, fmVars>>
nonRtVars == <<convVars, lyVars, chVars, ingVars, qzVars, ldVars,
                xmlVars, slVars, bVars, stVars, wnVars, psVars, fmVars>>
nonIngVars == <<convVars, lyVars, chVars, rtVars, qzVars, ldVars,
                xmlVars, slVars, bVars, stVars, wnVars, psVars, fmVars>>
nonQzVars == <<convVars, lyVars, chVars, rtVars, ingVars, ldVars,
                xmlVars, slVars, bVars, stVars, wnVars, psVars, fmVars>>
nonLdVars == <<convVars, lyVars, chVars, rtVars, ingVars, qzVars,
                xmlVars, slVars, bVars, stVars, wnVars, psVars, fmVars>>
nonXmlVars == <<convVars, lyVars, chVars, rtVars, ingVars, qzVars,
                ldVars, slVars, bVars, stVars, wnVars, psVars, fmVars>>
nonSlVars == <<convVars, lyVars, chVars, rtVars, ingVars, qzVars,
                ldVars, xmlVars, bVars, stVars, wnVars, psVars, fmVars>>
nonBVars == <<convVars, lyVars, chVars, rtVars, ingVars, qzVars,
                ldVars, xmlVars, slVars, stVars, wnVars, psVars, fmVars>>
nonStVars == <<convVars, lyVars, chVars, rtVars, ingVars, qzVars,
                ldVars, xmlVars, slVars, bVars, wnVars, psVars, fmVars>>
nonWnVars == <<convVars, lyVars, chVars, rtVars, ingVars, qzVars,
                ldVars, xmlVars, slVars, bVars, stVars, psVars, fmVars>>
nonPsVars == <<convVars, lyVars, chVars, rtVars, ingVars, qzVars,
                ldVars, xmlVars, slVars, bVars, stVars, wnVars, fmVars>>
nonFmVars == <<convVars, lyVars, chVars, rtVars, ingVars, qzVars,
                ldVars, xmlVars, slVars, bVars, stVars, wnVars, psVars>>
nonLdFmVars == <<convVars, lyVars, chVars, rtVars, ingVars, qzVars,
                xmlVars, slVars, bVars, stVars, wnVars, psVars>>

Max2(a, b) == IF a >= b THEN a ELSE b
Min2(a, b) == IF a <= b THEN a ELSE b

(***************************************************************************)
(* Bounds of the model.                                                    *)
(***************************************************************************)
MaxPdfs == 2
MaxWorkers == 2
MaxPages == 2

(***************************************************************************)
(* textbook_to_html.py                                                     *)
(***************************************************************************)
\* default min_chars_per_page of is_low_yield, and the two overrides
DefaultMinChars == 200
XmlMinChars == 100
OcrMinChars == 150
\* len() of the markup xml_to_html_paragraphs returns around title and body
XmlWrapperLen == 341
\* positional parameters of convert_one, and arguments of its two call sites
ConvertOneParams == 4
SeqCallArgs == 4
PoolSubmitArgs == 3

\* the mutant of is_low_yield: <= for <
is_low_yield_le(text, pgs, min_chars_per_page) ==
    IF text = 0 \/ pgs <= 0
    THEN TRUE
    ELSE text <= min_chars_per_page * Max2(1, pgs)

\* text is the string's length; len(text) / max(1, pages) < min_chars_per_page
\* compares a quotient of integers with an integer, which is the comparison
\* of the products
is_low_yield(text, pgs, min_chars_per_page) ==
    IF text = 0 \/ pgs <= 0
    THEN TRUE
    ELSE text < min_chars_per_page * Max2(1, pgs)

\* lengths of the texts the extraction tools hand back: empty, tiny, and
\* around every threshold for every page count
Thresholds == {DefaultMinChars, XmlMinChars, OcrMinChars}
TextLens ==
    {0, 1} \cup { t * p + d : t \in Thresholds, p \in 1..MaxPages, d \in {-1, 0} }

Pdfs == 1..npdfs

\* the cascade's methods in the order of the code
Methods ==
    << "pdftotext-layout", "pdftotext-default", "pdftotext-raw", "mutool",
       "pdfminer", "pdftohtml-xml", "ocr", "page-images" >>

Rank(m) == CHOOSE i \in 1..Len(Methods) : Methods[i] = m

\* main line 342: sequential when one file or at most one worker
Sequential == npdfs = 1 \/ workers <= 1

NoStatus == [tag |-> "none", method |-> "none"]
OkStatus(m) == [tag |-> "OK", method |-> m]
FailStatus == [tag |-> "FAIL", method |-> "none"]
ErrorStatus == [tag |-> "ERROR", method |-> "none"]

ConvInit ==
    /\ workers \in 1..MaxWorkers
    /\ npdfs \in 1..MaxPdfs
    /\ enable_ocr \in BOOLEAN
    /\ text_only \in BOOLEAN
    /\ has_mutool \in BOOLEAN
    /\ has_ocrmypdf \in BOOLEAN
    /\ mainPc = "start"
    /\ results = << >>
    /\ reportPrinted = FALSE
    /\ fut = [f \in 1..MaxPdfs |-> "none"]
    /\ pc = [f \in 1..MaxPdfs |-> "wait"]
    /\ pages = [f \in 1..MaxPdfs |-> 0]
    /\ invoked = [f \in 1..MaxPdfs |-> << >>]
    /\ written = [f \in 1..MaxPdfs |-> 0]
    /\ outKind = [f \in 1..MaxPdfs |-> "none"]
    /\ tmpFiles = [f \in 1..MaxPdfs |-> {}]
    /\ status = [f \in 1..MaxPdfs |-> NoStatus]

ConvIdle ==
    /\ workers = 1
    /\ npdfs = 1
    /\ enable_ocr = FALSE
    /\ text_only = FALSE
    /\ has_mutool = FALSE
    /\ has_ocrmypdf = FALSE
    /\ mainPc = "idle"
    /\ results = << >>
    /\ reportPrinted = FALSE
    /\ fut = [f \in 1..MaxPdfs |-> "none"]
    /\ pc = [f \in 1..MaxPdfs |-> "wait"]
    /\ pages = [f \in 1..MaxPdfs |-> 0]
    /\ invoked = [f \in 1..MaxPdfs |-> << >>]
    /\ written = [f \in 1..MaxPdfs |-> 0]
    /\ outKind = [f \in 1..MaxPdfs |-> "none"]
    /\ tmpFiles = [f \in 1..MaxPdfs |-> {}]
    /\ status = [f \in 1..MaxPdfs |-> NoStatus]

\* ---- main, lines 340-349 ----

\* line 342: choose the mode; the pool mode submits one future per file
MainStart ==
    /\ mainPc = "start"
    /\ mainPc' = IF Sequential THEN "seq" ELSE "pool"
    /\ fut' = [f \in 1..MaxPdfs |->
                 IF ~Sequential /\ f \in Pdfs THEN "queued" ELSE "none"]
    /\ UNCHANGED <<results, reportPrinted, cliVars, casVars, nonConvVars>>

\* lines 343-344: the loop calls convert_one for the next file; a call whose
\* arguments do not fit the parameters raises TypeError in main
SeqCall(f) ==
    /\ mainPc = "seq"
    /\ f \in Pdfs
    /\ f = Len(results) + 1
    /\ pc[f] = "wait"
    /\ IF SeqCallArgs = ConvertOneParams
       THEN /\ pc' = [pc EXCEPT ![f] = "pdfinfo"]
            /\ UNCHANGED mainPc
       ELSE /\ mainPc' = "aborted"
            /\ UNCHANGED pc
    /\ UNCHANGED <<results, reportPrinted, fut, cliVars, nonConvVars>>
    /\ UNCHANGED <<pages, invoked, written, outKind, tmpFiles, status>>

\* line 347: a worker thread takes a queued future and calls
\* convert_one(p, out_dir, args.enable_ocr); a call whose arguments do not
\* fit the parameters raises TypeError before convert_one's try block is
\* entered, and the future keeps the exception
WorkerCall(f) ==
    /\ mainPc \in {"pool", "unwinding"}
    /\ f \in Pdfs
    /\ fut[f] = "queued"
    /\ Cardinality({g \in Pdfs : fut[g] = "running"}) < workers
    /\ IF PoolSubmitArgs = ConvertOneParams
       THEN /\ fut' = [fut EXCEPT ![f] = "running"]
            /\ pc' = [pc EXCEPT ![f] = "pdfinfo"]
       ELSE /\ fut' = [fut EXCEPT ![f] = "exc"]
            /\ UNCHANGED pc
    /\ UNCHANGED <<mainPc, results, reportPrinted, cliVars, nonConvVars>>
    /\ UNCHANGED <<pages, invoked, written, outKind, tmpFiles, status>>

\* the locals of a call (pages) and what is noted of the call in progress
\* (the methods invoked, the writes of out_html) end with the call
CallOver(f) ==
    /\ pc' = [pc EXCEPT ![f] = "reported"]
    /\ pages' = [pages EXCEPT ![f] = 0]
    /\ invoked' = [invoked EXCEPT ![f] = << >>]
    /\ written' = [written EXCEPT ![f] = 0]
    /\ UNCHANGED <<outKind, tmpFiles, status>>

\* line 344: results.append(convert_one(...))
SeqAppend(f) ==
    /\ mainPc = "seq"
    /\ f \in Pdfs
    /\ pc[f] = "returned"
    /\ results' = Append(results, f)
    /\ CallOver(f)
    /\ UNCHANGED <<mainPc, reportPrinted, fut, cliVars, nonConvVars>>

\* lines 348-349: as_completed hands over a finished future; f.result()
\* returns the worker's result or raises the worker's exception in main
Collect(f) ==
    /\ mainPc = "pool"
    /\ f \in Pdfs
    /\ fut[f] \in {"result", "exc"}
    /\ IF fut[f] = "exc"
       THEN /\ mainPc' = "unwinding"
            /\ UNCHANGED <<results, fut, casVars>>
       ELSE /\ results' = Append(results, f)
            /\ fut' = [fut EXCEPT ![f] = "collected"]
            /\ CallOver(f)
            /\ UNCHANGED mainPc
    /\ UNCHANGED <<reportPrinted, cliVars, nonConvVars>>

\* line 346: leaving the with block waits for every submitted future; then
\* the loop's exception, if any, leaves main
PoolExit ==
    /\ mainPc \in {"pool", "unwinding"}
    /\ \A f \in Pdfs : fut[f] \notin {"queued", "running"}
    /\ mainPc = "pool" => \A f \in Pdfs : fut[f] = "collected"
    /\ mainPc' = IF mainPc = "unwinding" THEN "aborted" ELSE "report"
    /\ UNCHANGED <<results, reportPrinted, fut, cliVars, casVars, nonConvVars>>

\* the sequential loop is over
SeqExit ==
    /\ mainPc = "seq"
    /\ Len(results) = npdfs
    /\ mainPc' = "report"
    /\ UNCHANGED <<results, reportPrinted, fut, cliVars, casVars, nonConvVars>>

\* lines 351-357: the final report
Report ==
    /\ mainPc = "report"
    /\ mainPc' = "done"
    /\ reportPrinted' = TRUE
    /\ UNCHANGED <<results, fut, cliVars, casVars, nonConvVars>>

\* ---- convert_one and convert_pdf_to_html_text_first, lines 213-299 ----

\* a step of the cascade that goes on to the next step
Goto(f, next) ==
    /\ pc' = [pc EXCEPT ![f] = next]
    /\ UNCHANGED <<status, fut>>

\* convert_one returns (pdf_path, status): in a worker the future takes it as
\* its result
Finish(f, st) ==
    /\ pc' = [pc EXCEPT ![f] = "returned"]
    /\ status' = [status EXCEPT ![f] = st]
    /\ fut' = [fut EXCEPT ![f] = IF Sequential THEN @ ELSE "result"]
    /\ UNCHANGED results

Invoke(f, m) == invoked' = [invoked EXCEPT ![f] = Append(@, m)]

\* out_html.write_text(...) followed by the return of "[OK] <name>"; a
\* write that raises leaves convert_pdf_to_html_text_first by the exception,
\* which convert_one turns into the "[ERROR]" status (lines 298-299)
WriteAndReturn(f, name, writeOk) ==
    IF writeOk
    THEN /\ written' = [written EXCEPT ![f] = @ + 1]
         /\ outKind' = [outKind EXCEPT ![f] = "text"]
         /\ Finish(f, OkStatus(name))
    ELSE /\ UNCHANGED <<written, outKind>>
         /\ Finish(f, ErrorStatus)

\* the environment of a cascade step
CasFrame == UNCHANGED <<mainPc, results, reportPrinted, cliVars, nonConvVars>>

\* the mutant of AfterPdftotext: mutool is passed over though installed
AfterPdftotextNoMutool == "pdfminer"

\* line 228: mutool only if installed
AfterPdftotext == IF has_mutool THEN "mutool" ELSE "pdfminer"
\* line 263: OCR only if asked for and installed
AfterXml == IF enable_ocr /\ has_ocrmypdf THEN "ocr" ELSE "page-images"

\* line 215
PdfPageCount(f) ==
    /\ f \in Pdfs
    /\ pc[f] = "pdfinfo"
    /\ \E n \in 0..MaxPages : pages' = [pages EXCEPT ![f] = n]
    /\ Goto(f, "pdftotext-layout")
    /\ UNCHANGED <<invoked, written, outKind, tmpFiles>>
    /\ CasFrame

\* the mutant of PdftotextAccepts: any non-empty text is taken, whatever the
\* page count
PdftotextAcceptsAnyText(cp, txt, pgs) == cp /\ txt # 0

\* lines 220-222
PdftotextAccepts(cp, txt, pgs) ==
    cp /\ txt # 0 /\ ~is_low_yield(txt, pgs, DefaultMinChars)

\* lines 218-225: one pass of the loop over the three argument sets
Pdftotext(f) ==
    /\ f \in Pdfs
    /\ pc[f] \in {"pdftotext-layout", "pdftotext-default", "pdftotext-raw"}
    /\ Invoke(f, pc[f])
    /\ \E cp \in BOOLEAN, txt \in TextLens, writeOk \in BOOLEAN :
          IF PdftotextAccepts(cp, txt, pages[f])
          THEN WriteAndReturn(f, "pdftotext", writeOk)
          ELSE /\ Goto(f, IF pc[f] = "pdftotext-layout" THEN "pdftotext-default"
                          ELSE IF pc[f] = "pdftotext-default" THEN "pdftotext-raw"
                          ELSE AfterPdftotext)
               /\ UNCHANGED <<written, outKind>>
    /\ UNCHANGED <<pages, tmpFiles>>
    /\ CasFrame

\* lines 230-233: the temporary directory is made, mutool draws the pages
\* into it; a failed run leaves the with block, which deletes the directory
MutoolDraw(f) ==
    /\ f \in Pdfs
    /\ pc[f] = "mutool"
    /\ Invoke(f, "mutool")
    /\ \E cp \in BOOLEAN :
          IF cp
          THEN /\ tmpFiles' = [tmpFiles EXCEPT ![f] = @ \cup {"mutool-pages"}]
               /\ Goto(f, "mutool-read")
          ELSE /\ UNCHANGED tmpFiles
               /\ Goto(f, "pdfminer")
    /\ UNCHANGED <<pages, written, outKind>>
    /\ CasFrame

\* lines 234-238: the page files are read and joined; text.strip() decides
\* emptiness, is_low_yield sees the unstripped text; every way out of the
\* with block deletes the directory
MutoolRead(f) ==
    /\ f \in Pdfs
    /\ pc[f] = "mutool-read"
    /\ tmpFiles' = [tmpFiles EXCEPT ![f] = @ \ {"mutool-pages"}]
    /\ \E raw \in TextLens, blank \in BOOLEAN, readOk \in BOOLEAN, writeOk \in BOOLEAN :
          LET stripped == IF blank THEN 0 ELSE raw
          IN  IF ~readOk
              THEN /\ UNCHANGED <<written, outKind>>
                   /\ Finish(f, ErrorStatus)
              ELSE IF stripped # 0 /\ ~is_low_yield(raw, pages[f], DefaultMinChars)
              THEN WriteAndReturn(f, "mutool", writeOk)
              ELSE /\ Goto(f, "pdfminer")
                   /\ UNCHANGED <<written, outKind>>
    /\ UNCHANGED <<pages, invoked>>
    /\ CasFrame

\* lines 241-246
Pdfminer(f) ==
    /\ f \in Pdfs
    /\ pc[f] = "pdfminer"
    /\ Invoke(f, "pdfminer")
    /\ \E cp \in BOOLEAN, txt \in TextLens, writeOk \in BOOLEAN :
          IF cp /\ txt # 0 /\ ~is_low_yield(txt, pages[f], DefaultMinChars)
          THEN WriteAndReturn(f, "pdfminer", writeOk)
          ELSE /\ Goto(f, "pdftohtml-xml")
               /\ UNCHANGED <<written, outKind>>
    /\ UNCHANGED <<pages, tmpFiles>>
    /\ CasFrame

\* lines 249-254: pdftohtml -xml writes <stem>_xml.xml beside the output
XmlRun(f) ==
    /\ f \in Pdfs
    /\ pc[f] = "pdftohtml-xml"
    /\ Invoke(f, "pdftohtml-xml")
    /\ \E cp \in BOOLEAN, exists \in BOOLEAN :
          IF cp /\ exists
          THEN /\ tmpFiles' = [tmpFiles EXCEPT ![f] = @ \cup {"xml"}]
               /\ Goto(f, "xml-rebuild")
          ELSE /\ UNCHANGED tmpFiles
               /\ Goto(f, AfterXml)
    /\ UNCHANGED <<pages, written, outKind>>
    /\ CasFrame

\* what xml_to_html_paragraphs returns: "" (lines 110, 128) or the wrapper
\* around the title and at least one <p>..</p>
RebuiltLens == {0} \cup { XmlWrapperLen + b : b \in {8, 120} }

\* lines 255-260: xml_path.unlink() stands only between the write of an
\* accepted result and its return
XmlLeftBehind(accepted, writeOk) == ~(accepted /\ writeOk)

\* lines 255-260
XmlRebuild(f) ==
    /\ f \in Pdfs
    /\ pc[f] = "xml-rebuild"
    /\ \E rebuilt \in RebuiltLens, raised \in BOOLEAN, writeOk \in BOOLEAN :
          LET accepted == ~raised /\ rebuilt # 0
                          /\ ~is_low_yield(rebuilt, pages[f], XmlMinChars)
          IN  /\ tmpFiles' = [tmpFiles EXCEPT ![f] =
                     IF XmlLeftBehind(accepted, writeOk) THEN @ ELSE @ \ {"xml"}]
              /\ IF raised
                 THEN /\ UNCHANGED <<written, outKind>>
                      /\ Finish(f, ErrorStatus)
                 ELSE IF accepted
                 THEN WriteAndReturn(f, "pdftohtml-xml", writeOk)
                 ELSE /\ Goto(f, AfterXml)
                      /\ UNCHANGED <<written, outKind>>
    /\ UNCHANGED <<pages, invoked>>
    /\ CasFrame

\* lines 265-274: the temporary directory is made, ocrmypdf writes ocr.pdf
\* into it; without it the with block is left and the directory deleted
OcrRun(f) ==
    /\ f \in Pdfs
    /\ pc[f] = "ocr"
    /\ Invoke(f, "ocr")
    /\ \E done \in BOOLEAN :
          IF done
          THEN /\ tmpFiles' = [tmpFiles EXCEPT ![f] = @ \cup {"ocr-pdf"}]
               /\ Goto(f, "ocr-text")
          ELSE /\ UNCHANGED tmpFiles
               /\ Goto(f, "page-images")
    /\ UNCHANGED <<pages, written, outKind>>
    /\ CasFrame

\* lines 275-280: pdftotext over ocr.pdf; every way out of the with block
\* deletes the directory
OcrText(f) ==
    /\ f \in Pdfs
    /\ pc[f] = "ocr-text"
    /\ tmpFiles' = [tmpFiles EXCEPT ![f] = @ \ {"ocr-pdf"}]
    /\ \E cp2 \in BOOLEAN, txt \in TextLens, writeOk \in BOOLEAN :
          IF cp2 /\ txt # 0 /\ ~is_low_yield(txt, pages[f], OcrMinChars)
          THEN WriteAndReturn(f, "ocr", writeOk)
          ELSE /\ Goto(f, "page-images")
               /\ UNCHANGED <<written, outKind>>
    /\ UNCHANGED <<pages, invoked>>
    /\ CasFrame

\* the mutant of PageImagesSkipped: --text-only skips the step
PageImagesSkippedIfTextOnly == text_only

\* lines 282-284: no condition stands before the last step; text_only is a
\* parameter the function never reads
PageImagesSkipped == FALSE

\* lines 283-287: pdftohtml renders the pages into <stem>.html
PageImages(f) ==
    /\ f \in Pdfs
    /\ pc[f] = "page-images"
    /\ IF PageImagesSkipped
       THEN /\ UNCHANGED <<invoked, outKind>>
            /\ Finish(f, FailStatus)
       ELSE /\ Invoke(f, "page-images")
            /\ \E cp \in BOOLEAN :
                  IF cp
                  THEN /\ outKind' = [outKind EXCEPT ![f] = "images"]
                       /\ Finish(f, OkStatus("page-images"))
                  ELSE /\ UNCHANGED outKind
                       /\ Finish(f, FailStatus)
    /\ UNCHANGED <<pages, written, tmpFiles>>
    /\ CasFrame

(***************************************************************************)
(* is_low_yield applied to drawn inputs                                    *)
(***************************************************************************)
LyIdle ==
    /\ lyText = 0
    /\ lyPages = 0
    /\ lyThr = 0
    /\ lyRes = "idle"

LyInit ==
    /\ lyText \in TextLens
    /\ lyPages \in -1..MaxPages
    /\ lyThr \in Thresholds
    /\ lyRes = "none"

\* lines 205-209: the call is_low_yield(text, pages, min_chars_per_page)
LyApply ==
    /\ lyRes = "none"
    /\ lyRes' = IF is_low_yield(lyText, lyPages, lyThr) THEN "low" ELSE "ok"
    /\ UNCHANGED <<lyText, lyPages, lyThr, nonLyVars>>

LyNext == LyApply

ConvNext ==
    \/ MainStart
    \/ SeqExit
    \/ PoolExit
    \/ Report
    \/ \E f \in 1..MaxPdfs : SeqCall(f)
    \/ \E f \in 1..MaxPdfs : SeqAppend(f)
    \/ \E f \in 1..MaxPdfs : WorkerCall(f)
    \/ \E f \in 1..MaxPdfs : Collect(f)
    \/ \E f \in 1..MaxPdfs : PdfPageCount(f)
    \/ \E f \in 1..MaxPdfs : Pdftotext(f)
    \/ \E f \in 1..MaxPdfs : MutoolDraw(f)
    \/ \E f \in 1..MaxPdfs : MutoolRead(f)
    \/ \E f \in 1..MaxPdfs : Pdfminer(f)
    \/ \E f \in 1..MaxPdfs : XmlRun(f)
    \/ \E f \in 1..MaxPdfs : XmlRebuild(f)
    \/ \E f \in 1..MaxPdfs : OcrRun(f)
    \/ \E f \in 1..MaxPdfs : OcrText(f)
    \/ \E f \in 1..MaxPdfs : PageImages(f)

(***************************************************************************)
(* encode_corpus.py: html_to_textbook_docs                                 *)
(***************************************************************************)
MaxElems == 4
\* step = max(180, target_words), target_words = 300
MinStepTextbook == 180
TargetWordsTextbook == 300

\* a token of text between whitespace: a word, or a number with the
\* punctuation that clings to it ("1:" is N(1, ":"))
W(w) == [k |-> "word", w |-> w, n |-> 0]
N(n, sep) == [k |-> "num", w |-> sep, n |-> n]

\* the elements of a document body in document order: a heading (h1, h2,
\* h3) or a block of content (p, li, pre, ...), each with its text
H(line) == [tag |-> "h", line |-> line]
P(line) == [tag |-> "p", line |-> line]

Elements ==
    { H(<<W("Chapter"), N(1, ":"), W("Intro")>>),
      H(<<W("Chapter"), N(2, "")>>),
      H(<<W("Notes")>>),
      P(<<W("a")>>),
      P(<<W("b")>>) }

ChunkerDocs == UNION { [1..n -> Elements] : n \in 0..MaxElems }

\* re.I of CHAPTER_RE
Lower(w) == IF w \in {"Chapter", "CHAPTER", "chapter"} THEN "chapter" ELSE w

\* CHAPTER_RE = ^\s*chapter\s+(\d+)\b[:.\s]*(.*)$
ChapterMatch(line) ==
    /\ Len(line) >= 2
    /\ line[1].k = "word"
    /\ Lower(line[1].w) = "chapter"
    /\ line[2].k = "num"

\* int(m.group(1))
ChapterNum(line) == line[2].n

DefaultTitle(num) == <<W("Chapter"), N(num, "")>>

\* (m.group(2) or "").strip() or f"Chapter {ch_num}"
ChapterTitle(line) ==
    IF SubSeq(line, 3, Len(line)) = << >>
    THEN DefaultTitle(ChapterNum(line))
    ELSE SubSeq(line, 3, Len(line))

\* soup.select("h1, h2, h3"): the positions of the headings
Heads(doc) ==
    SelectSeq([i \in 1..Len(doc) |-> i], LAMBDA i : doc[i].tag = "h")

IsChapterHead(doc, j) == doc[j].tag = "h" /\ ChapterMatch(doc[j].line)

\* where h.find_all_next() is left: the next chapter heading after i
NextChapterAfter(doc, i) ==
    IF \E j \in (i+1)..Len(doc) : IsChapterHead(doc, j)
    THEN CHOOSE j \in (i+1)..Len(doc) :
            /\ IsChapterHead(doc, j)
            /\ \A l \in (i+1)..(j-1) : ~IsChapterHead(doc, l)
    ELSE Len(doc) + 1

\* the texts of the content blocks at positions from..to-1
RECURSIVE BlockTexts(_, _, _)
BlockTexts(doc, from, to) ==
    IF from >= to
    THEN << >>
    ELSE (IF doc[from].tag = "p" THEN <<doc[from].line>> ELSE << >>)
            \o BlockTexts(doc, from + 1, to)

\* lines 69-73: the blocks after heading i up to the next chapter heading
Collected(doc, i) == BlockTexts(doc, i + 1, NextChapterAfter(doc, i))

\* clean_text("\n".join(parts)).split(): the words of the parts
RECURSIVE Flatten(_)
Flatten(parts) ==
    IF parts = << >> THEN << >> ELSE Head(parts) \o Flatten(Tail(parts))

\* soup.get_text("\n", strip=True): every text of the body, headings too
BodyText(doc) == Flatten([i \in 1..Len(doc) |-> doc[i].line])

NoCurrent == [set |-> FALSE, num |-> 0, title |-> << >>, parts |-> << >>]

SectionOf(cur) ==
    [num |-> cur.num, title |-> cur.title, words |-> Flatten(cur.parts)]

ChIdle ==
    /\ chDoc = << >>
    /\ chPc = "idle"
    /\ chIdx = 0
    /\ chCurrent = NoCurrent
    /\ chSections = << >>
    /\ chDocs = << >>

ChInit ==
    /\ chDoc \in ChunkerDocs
    /\ chPc = "heads"
    /\ chIdx = 1
    /\ chCurrent = NoCurrent
    /\ chSections = << >>
    /\ chDocs = << >>

\* lines 57-75: one pass of the loop over the headings
HeadsLoop ==
    /\ chPc = "heads"
    /\ chIdx <= Len(Heads(chDoc))
    /\ LET i == Heads(chDoc)[chIdx]
           line == chDoc[i].line
       IN  IF ChapterMatch(line)
           THEN /\ chSections' =
                      IF chCurrent.set /\ chCurrent.parts # << >>
                      THEN Append(chSections, SectionOf(chCurrent))
                      ELSE chSections
                /\ chCurrent' = [set |-> TRUE, num |-> ChapterNum(line),
                                 title |-> ChapterTitle(line), parts |-> << >>]
                /\ chIdx' = chIdx + 1
                /\ UNCHANGED chPc
           ELSE IF chCurrent.set
           THEN /\ chCurrent' =
                      [chCurrent EXCEPT !.parts = @ \o Collected(chDoc, i)]
                /\ chPc' = "sections"
                /\ UNCHANGED <<chSections, chIdx>>
           ELSE /\ chIdx' = chIdx + 1
                /\ UNCHANGED <<chSections, chCurrent, chPc>>
    /\ UNCHANGED <<chDoc, chDocs, nonChVars>>

\* the loop has no heading left
HeadsDone ==
    /\ chPc = "heads"
    /\ chIdx > Len(Heads(chDoc))
    /\ chPc' = "sections"
    /\ UNCHANGED <<chDoc, chIdx, chCurrent, chSections, chDocs, nonChVars>>

\* lines 77-83: the whole body as chapter 1 when no section was kept, else
\* the last chapter is flushed
SectionsFallback ==
    /\ chPc = "sections"
    /\ chSections' =
          IF chSections = << >>
          THEN IF BodyText(chDoc) # << >>
               THEN << [num |-> 1, title |-> DefaultTitle(1),
                        words |-> BodyText(chDoc)] >>
               ELSE << >>
          ELSE IF chCurrent.set /\ chCurrent.parts # << >>
          THEN Append(chSections, SectionOf(chCurrent))
          ELSE chSections
    /\ chPc' = "windows"
    /\ UNCHANGED <<chDoc, chIdx, chCurrent, chDocs, nonChVars>>

\* range(0, len(words), step)
NumWindows(words, step) == (Len(words) + step - 1) \div step

\* lines 87-100: the word windows of one section, as chunks
ChunksOfSection(sec, step) ==
    [k \in 1..NumWindows(sec.words, step) |->
        [chapter |-> sec.num, chapter_title |-> sec.title, chunk |-> k - 1,
         content |-> SubSeq(sec.words, (k - 1) * step + 1,
                            Min2(k * step, Len(sec.words)))]]

RECURSIVE ChunksOfSections(_, _)
ChunksOfSections(secs, step) ==
    IF secs = << >>
    THEN << >>
    ELSE ChunksOfSection(Head(secs), step) \o ChunksOfSections(Tail(secs), step)

\* lines 85-101
Windows ==
    /\ chPc = "windows"
    /\ chDocs' = ChunksOfSections(chSections,
                                  Max2(MinStepTextbook, TargetWordsTextbook))
    /\ chPc' = "done"
    /\ UNCHANGED <<chDoc, chIdx, chCurrent, chSections, nonChVars>>

ChNext ==
    \/ HeadsLoop
    \/ HeadsDone
    \/ SectionsFallback
    \/ Windows

(***************************************************************************)
(* mini.py: build_hybrid_retriever_for_subset and one query                *)
(***************************************************************************)
NumDocs == 9
\* TOP_K, and the numbers of max(8, k) and max(12, 3 * self.k)
TOP_K == 6
TopKFloor == 8
OverFetchMin == 12
OverFetchFactor == 3

\* vs.docstore: the chunks of the index; a chunk stands for its content,
\* and no two chunks have the same content
IndexDocs == 1..NumDocs

\* (source, chunk, slide, chapter) of a chunk: chunks 2j-1 and 2j have the
\* same key, as two heading sections of one file have, each numbered from
\* chunk 0 and with neither slide nor chapter
meta_key(d) == (d + 1) \div 2

SubsetKeys(subset) == { meta_key(d) : d \in subset }

\* the values of k the retriever is built with
Ks == {1, TOP_K, TopKFloor + 1}

\* the n best of a set in an order the model does not know: any n of them
TopN(S, n) == { T \in SUBSET S : Cardinality(T) = Min2(n, Cardinality(S)) }

\* the mutant of InSubsetKeys: the dense hits are not filtered
InSubsetKeysAny(h, keys) == TRUE

\* line 150: meta_key(h) in self.subset_keys
InSubsetKeys(h, keys) == meta_key(h) \in keys

RtIdle ==
    /\ rtSubset = {}
    /\ rtK = 0
    /\ rtPc = "idle"
    /\ rtLex = {}
    /\ rtDense = {}
    /\ rtResult = {}

\* main line 189: the subset is not empty
RtInit ==
    /\ rtSubset \in (SUBSET IndexDocs) \ {{}}
    /\ rtK \in Ks
    /\ rtPc = "lexical"
    /\ rtLex = {}
    /\ rtDense = {}
    /\ rtResult = {}

\* lines 132-133: BM25 over the subset, bm25.k = max(8, k); the query brings
\* back the bm25.k best chunks of the subset
RtLexical ==
    /\ rtPc = "lexical"
    /\ rtLex' \in TopN(rtSubset, Max2(TopKFloor, rtK))
    /\ rtPc' = "dense"
    /\ UNCHANGED <<rtSubset, rtK, rtDense, rtResult, nonRtVars>>

\* lines 148-153: self.k = max(8, k); the max(12, 3 * self.k) nearest chunks
\* of the whole index, those with a key of the subset kept, cut to self.k
RtDense ==
    /\ rtPc = "dense"
    /\ \E hits \in TopN(IndexDocs,
                        Max2(OverFetchMin, OverFetchFactor * Max2(TopKFloor, rtK))) :
          rtDense' \in TopN({ h \in hits : InSubsetKeys(h, SubsetKeys(rtSubset)) },
                            Max2(TopKFloor, rtK))
    /\ rtPc' = "fuse"
    /\ UNCHANGED <<rtSubset, rtK, rtLex, rtResult, nonRtVars>>

\* line 156: EnsembleRetriever fuses the two lists by rank and returns every
\* chunk of either once
RtFuse ==
    /\ rtPc = "fuse"
    /\ rtResult' = rtLex \cup rtDense
    /\ rtPc' = "done"
    /\ UNCHANGED <<rtSubset, rtK, rtLex, rtDense, nonRtVars>>

RtNext ==
    \/ RtLexical
    \/ RtDense
    \/ RtFuse

(***************************************************************************)
(* encode_corpus.py, encoding_html_to_faiss.py, ingest_slides_html.py:     *)
(* the three main functions over one input folder and one index location   *)
(***************************************************************************)
NumFiles == 2
MaxVer == 2
MaxRuns == 2
MaxEdits == 2

\* the HTML files of the input folder, by name
Files == 1..NumFiles
\* the bytes a file can hold; the bytes 0 are a document without any text
Versions == 0..MaxVer

\* sha1_file / file_sha1: the digest of a file's bytes, different bytes
\* having different digests
Sha1(bytes) == <<"sha1", bytes>>
NoSha == <<"sha1", -1>>

NoManifest == [present |-> FALSE, sha1 |-> [f \in Files |-> NoSha]]

\* save_manifest, and new_manifest of ingest_slides_html.py line 164-167
NewManifest == [present |-> TRUE, sha1 |-> [f \in Files |-> Sha1(fileVer[f])]]

\* Document(page_content="", metadata={}), ingest_slides_html.py line 187
Placeholder == [src |-> 0, ver |-> 0, by |-> "placeholder"]

\* the chunks a chunker makes of one file: none of a document without text
ChunksOfFile(f, by) ==
    IF fileVer[f] = 0
    THEN << >>
    ELSE << [src |-> f, ver |-> fileVer[f], by |-> by] >>

\* all_docs: the chunks of the files of a set, in the sorted order of names
RECURSIVE DocsFrom(_, _, _)
DocsFrom(f, S, by) ==
    IF f > NumFiles
    THEN << >>
    ELSE (IF f \in S THEN ChunksOfFile(f, by) ELSE << >>) \o DocsFrom(f + 1, S, by)

AllDocs(S, by) == DocsFrom(1, S, by)

\* the mutant of ToIngest: no file is skipped
ToIngestAll(dirExists, fresh, old) == Files

\* ingest_slides_html.py lines 163-172: the files to chunk
ToIngest(dirExists, fresh, old) ==
    IF ~dirExists \/ fresh
    THEN Files
    ELSE { f \in Files : old[f] # Sha1(fileVer[f]) }

\* page_content of a chunk: the chunkers skip an empty piece, the placeholder
\* of ingest_slides_html is the empty text
ContentOf(c) == IF c.by = "placeholder" THEN "" ELSE "text"

\* the metadata keys of a chunk: encode_corpus.py lines 92-99 (the files of
\* the folder taken as textbooks), encoding_html_to_faiss.py lines 95-102,
\* ingest_slides_html.py lines 83-90 and 187
MetaKeys(c) ==
    CASE c.by = "encode_corpus" ->
            {"source_type", "book_title", "chapter", "chapter_title", "source", "chunk"}
      [] c.by = "encoding_html_to_faiss" ->
            {"source", "doc_type", "heading", "chunk"}
      [] c.by = "ingest_slides_html" ->
            {"course_id", "version", "doc_type", "source", "slide", "chunk_id"}
      [] OTHER -> {}

\* the value under the key doc_type, "" when the key is not there
DocTypeOf(c) ==
    CASE c.by = "encoding_html_to_faiss" -> "html"
      [] c.by = "ingest_slides_html" -> "lecture_slide"
      [] OTHER -> ""

\* the mutant of Appended: the index is built from the new chunks alone
AppendedRebuilt(hasIndex, chunks, docs) == docs

\* encode_corpus.py lines 210-221, encoding_html_to_faiss.py lines 158-170:
\* load_local and add_documents when index.faiss is there, else
\* from_documents
Appended(hasIndex, chunks, docs) ==
    (IF hasIndex THEN chunks ELSE << >>) \o docs

NoRun ==
    [script |-> "none", fresh |-> FALSE, outcome |-> "none", chunked |-> {},
     added |-> << >>, hadManifest |-> FALSE, repeat |-> FALSE, zero |-> FALSE]

IngIdle ==
    /\ fileVer = [f \in Files |-> 1]
    /\ idxDir = FALSE
    /\ idxFaiss = FALSE
    /\ idxChunks = << >>
    /\ manifest = NoManifest
    /\ runs = MaxRuns
    /\ edits = MaxEdits
    /\ edited = FALSE
    /\ lastRun = NoRun

\* a folder of files with text, no index yet
IngInit ==
    /\ fileVer = [f \in Files |-> 1]
    /\ idxDir = FALSE
    /\ idxFaiss = FALSE
    /\ idxChunks = << >>
    /\ manifest = NoManifest
    /\ runs = 0
    /\ edits = 0
    /\ edited = FALSE
    /\ lastRun = NoRun

\* between two runs somebody changes the bytes of an input file
EditFile(f, v) ==
    /\ edits < MaxEdits
    /\ f \in Files
    /\ v \in Versions
    /\ v # fileVer[f]
    /\ fileVer' = [fileVer EXCEPT ![f] = v]
    /\ edits' = edits + 1
    /\ edited' = TRUE
    /\ UNCHANGED <<idxDir, idxFaiss, idxChunks, manifest, runs, lastRun, nonIngVars>>

\* what is noted of a run
RunNote(script, fresh, outcome, chunked, added, hadManifest) ==
    /\ runs' = runs + 1
    /\ edited' = FALSE
    /\ lastRun' =
          [script |-> script, fresh |-> fresh, outcome |-> outcome,
           chunked |-> chunked, added |-> added, hadManifest |-> hadManifest,
           repeat |-> (lastRun.script = script /\ lastRun.outcome = "ok"
                       /\ ~edited /\ ~fresh),
           zero |-> \A f \in Files : fileVer[f] = 0]
    /\ UNCHANGED <<fileVer, edits, nonIngVars>>

\* encode_corpus.py main, lines 180-223
EncodeCorpusMain(fresh) ==
    /\ runs < MaxRuns
    /\ LET wiped  == fresh /\ idxDir
           faiss0 == idxFaiss /\ ~wiped
           chunks0 == IF wiped THEN << >> ELSE idxChunks
           man0   == IF wiped THEN NoManifest ELSE manifest
           docs   == AllDocs(Files, "encode_corpus")
       IN  /\ idxDir' = TRUE
           /\ IF docs = << >>
              THEN /\ idxFaiss' = faiss0
                   /\ idxChunks' = chunks0
                   /\ manifest' = man0
                   /\ RunNote("encode_corpus", fresh, "empty_error", Files,
                              << >>, FALSE)
              ELSE /\ idxFaiss' = TRUE
                   /\ idxChunks' = Appended(faiss0, chunks0, docs)
                   /\ manifest' = NewManifest
                   /\ RunNote("encode_corpus", fresh, "ok", Files, docs, FALSE)

\* encoding_html_to_faiss.py main, lines 137-172
EncodingHtmlMain(fresh) ==
    /\ runs < MaxRuns
    /\ LET wiped  == fresh /\ idxDir
           dir0   == idxDir /\ ~wiped
           faiss0 == idxFaiss /\ ~wiped
           chunks0 == IF wiped THEN << >> ELSE idxChunks
           man0   == IF wiped THEN NoManifest ELSE manifest
           docs   == AllDocs(Files, "encoding_html_to_faiss")
       IN  IF docs = << >>
           THEN /\ idxDir' = dir0
                /\ idxFaiss' = faiss0
                /\ idxChunks' = chunks0
                /\ manifest' = man0
                /\ RunNote("encoding_html_to_faiss", fresh, "empty_error",
                           Files, << >>, FALSE)
           ELSE /\ idxDir' = TRUE
                /\ idxFaiss' = TRUE
                /\ idxChunks' = Appended(faiss0, chunks0, docs)
                /\ manifest' = NewManifest
                /\ RunNote("encoding_html_to_faiss", fresh, "ok", Files, docs,
                           FALSE)

\* ingest_slides_html.py main, lines 150-192; FAISS.load_local raises when
\* the folder is there without an index in it
IngestSlidesMain(fresh) ==
    /\ runs < MaxRuns
    /\ LET wiped  == fresh /\ idxDir
           dir0   == idxDir /\ ~wiped
           faiss0 == idxFaiss /\ ~wiped
           chunks0 == IF wiped THEN << >> ELSE idxChunks
           man0   == IF wiped THEN NoManifest ELSE manifest
           hadMan == dir0 /\ man0.present
           to_ingest == ToIngest(dir0, fresh, man0.sha1)
           docs   == AllDocs(to_ingest, "ingest_slides_html")
       IN  IF dir0 /\ ~faiss0
           THEN /\ idxDir' = dir0
                /\ idxFaiss' = faiss0
                /\ idxChunks' = chunks0
                /\ manifest' = man0
                /\ RunNote("ingest_slides_html", fresh, "load_error",
                           to_ingest, << >>, hadMan)
           ELSE /\ idxDir' = TRUE
                /\ idxFaiss' = TRUE
                /\ idxChunks' =
                      IF dir0
                      THEN chunks0 \o docs
                      ELSE IF docs = << >> THEN <<Placeholder>> ELSE docs
                /\ manifest' = NewManifest
                /\ RunNote("ingest_slides_html", fresh, "ok", to_ingest,
                           IF ~dir0 /\ docs = << >> THEN <<Placeholder>> ELSE docs,
                           hadMan)

IngNext ==
    \/ \E f \in Files, v \in Versions : EditFile(f, v)
    \/ \E fresh \in BOOLEAN : EncodeCorpusMain(fresh)
    \/ \E fresh \in BOOLEAN : EncodingHtmlMain(fresh)
    \/ \E fresh \in BOOLEAN : IngestSlidesMain(fresh)

(***************************************************************************)
(* mini.py: the request loop of main, with parse_quiz_filters' result and  *)
(* subset_docs                                                             *)
(***************************************************************************)
MaxChapter == 2
MaxRequests == 2

\* the chunks a corpus can hold: book_title by the words subset_docs looks
\* for in it, source_type, chapter (-1: no chapter key)
QuizDocs ==
    { [bt |-> {"algorithm"}, st |-> "textbook", ch |-> 1],
      [bt |-> {"discrete"}, st |-> "textbook", ch |-> 2],
      [bt |-> {"goodrich"}, st |-> "textbook", ch |-> 2],
      [bt |-> {}, st |-> "slides", ch |-> -1] }

\* what parse_quiz_filters returns: book None / algorithms / discrete, and a
\* set of chapters
Books == {"none", "algorithms", "discrete"}
ChapterSets == SUBSET (1..MaxChapter)

\* subset_docs.ok, lines 115-126
FilterOk(d, book, chapters) ==
    /\ book = "algorithms" => d.bt \cap {"algorithm", "goodrich", "tamassia"} # {}
    /\ book = "discrete" => d.bt \cap {"discrete", "combinatorial"} # {}
    /\ chapters # {} => (d.st = "textbook" /\ d.ch \in chapters)

\* subset_docs, line 127
subset_docs(all_docs, book, chapters) ==
    { d \in all_docs : FilterOk(d, book, chapters) }

\* the mutant of NoMatch: an empty subset is not told apart
NoMatchNever(subset) == FALSE

\* line 189: if not subset
NoMatch(subset) == subset = {}

NoReq == [kind |-> "none", book |-> "none", chapters |-> {}]

QzIdle ==
    /\ qDocs = {}
    /\ qPc = "idle"
    /\ qReq = NoReq
    /\ qSubset = {}
    /\ qOut = "none"
    /\ qBuilt = 0
    /\ qCalls = 0
    /\ qReqs = 0

\* lines 160-172: the index is loaded, the whole-corpus retriever and the
\* chain are built, the loop waits for input
QzInit ==
    /\ qDocs \in (SUBSET QuizDocs) \ {{}}
    /\ qPc = "prompt"
    /\ qReq = NoReq
    /\ qSubset = {}
    /\ qOut = "none"
    /\ qBuilt = 0
    /\ qCalls = 0
    /\ qReqs = 0

\* line 177: an empty line
EmptyLine ==
    /\ qPc = "prompt"
    /\ qReqs < MaxRequests
    /\ qReqs' = qReqs + 1
    /\ qReq' = [kind |-> "empty", book |-> "none", chapters |-> {}]
    /\ qOut' = "none"
    /\ UNCHANGED <<qDocs, qPc, qSubset, qBuilt, qCalls, nonQzVars>>

\* lines 179-191: a /quiz request is parsed and the subset is made; with no
\* match the message is printed and the loop goes on
QuizAsk(book, chapters) ==
    /\ qPc = "prompt"
    /\ qReqs < MaxRequests
    /\ qReqs' = qReqs + 1
    /\ qReq' = [kind |-> "quiz", book |-> book, chapters |-> chapters]
    /\ qSubset' = subset_docs(qDocs, book, chapters)
    /\ IF NoMatch(subset_docs(qDocs, book, chapters))
       THEN /\ qOut' = "nomatch"
            /\ qPc' = "prompt"
       ELSE /\ qOut' = "none"
            /\ qPc' = "build"
    /\ UNCHANGED <<qDocs, qBuilt, qCalls, nonQzVars>>

\* line 193: build_hybrid_retriever_for_subset(vs, subset, k=TOP_K)
QuizBuild ==
    /\ qPc = "build"
    /\ qBuilt' = qBuilt + 1
    /\ qPc' = "make"
    /\ UNCHANGED <<qDocs, qReq, qSubset, qOut, qReqs, qCalls, nonQzVars>>

\* lines 200-202: make_quiz calls the completion service; its exception is
\* not caught by main
QuizMake(ok) ==
    /\ qPc = "make"
    /\ qCalls' = qCalls + 1
    /\ IF ok
       THEN /\ qOut' = "quiz"
            /\ qPc' = "prompt"
       ELSE /\ qOut' = "exception"
            /\ qPc' = "raised"
    /\ UNCHANGED <<qDocs, qReq, qSubset, qReqs, qBuilt, nonQzVars>>

\* lines 205-206: a question goes to the whole-corpus chain
Ask(ok) ==
    /\ qPc = "prompt"
    /\ qReqs < MaxRequests
    /\ qReqs' = qReqs + 1
    /\ qReq' = [kind |-> "qa", book |-> "none", chapters |-> {}]
    /\ qCalls' = qCalls + 1
    /\ IF ok
       THEN /\ qOut' = "answer"
            /\ qPc' = "prompt"
       ELSE /\ qOut' = "exception"
            /\ qPc' = "raised"
    /\ UNCHANGED <<qDocs, qSubset, qBuilt, nonQzVars>>

\* lines 207-208: Ctrl+C at the prompt
Interrupt ==
    /\ qPc = "prompt"
    /\ qPc' = "bye"
    /\ UNCHANGED <<qDocs, qReq, qSubset, qOut, qReqs, qBuilt, qCalls, nonQzVars>>

QzNext ==
    \/ EmptyLine
    \/ \E book \in Books, chapters \in ChapterSets : QuizAsk(book, chapters)
    \/ QuizBuild
    \/ \E ok \in BOOLEAN : QuizMake(ok)
    \/ \E ok \in BOOLEAN : Ask(ok)
    \/ Interrupt

(***************************************************************************)
(* mini.py: load_index, _load_manifest, _emb_from_family                   *)
(***************************************************************************)
OpenAIDim == 1536
MiniLMDim == 384
DefaultDim == 1536

\* what manifest.json can say: "absent" for a file that is missing or is not
\* JSON, "nokey" for one without embed_family, else the embed_family text
EmbedFamilies ==
    { "openai:text-embedding-3-small", " OpenAI:text-embedding-3-small ",
      "hf:all-MiniLM-L6-v2", "hf:sentence-transformers/all-MiniLM-L6-v2",
      "HF:ALL-MINILM-L6-V2", "openai:text-embedding-3-large",
      "hf:other-model", "" }
ManifestKinds == {"absent", "nokey"} \cup EmbedFamilies

\* the dimensions index.faiss can have
IndexDims == {MiniLMDim, 768, 1024, OpenAIDim, 3072}

\* (family or "").strip().lower(), line 32
StripLower(family) ==
    CASE family = " OpenAI:text-embedding-3-small " -> "openai:text-embedding-3-small"
      [] family = "hf:all-MiniLM-L6-v2" -> "hf:all-minilm-l6-v2"
      [] family = "HF:ALL-MINILM-L6-V2" -> "hf:all-minilm-l6-v2"
      [] family = "hf:sentence-transformers/all-MiniLM-L6-v2" ->
            "hf:sentence-transformers/all-minilm-l6-v2"
      [] OTHER -> family

\* the mutant of emb_from_family: every known family is taken as 1536 wide
emb_from_family_wide(family) ==
    IF StripLower(family) \in
          {"openai:text-embedding-3-small", "hf:all-minilm-l6-v2",
           "hf:sentence-transformers/all-minilm-l6-v2"}
    THEN OpenAIDim
    ELSE 0

\* _emb_from_family, lines 31-39: the expected dimension, 0 for ValueError
emb_from_family(family) ==
    IF StripLower(family) = "openai:text-embedding-3-small"
    THEN OpenAIDim
    ELSE IF StripLower(family) \in
               {"hf:all-minilm-l6-v2", "hf:sentence-transformers/all-minilm-l6-v2"}
    THEN MiniLMDim
    ELSE 0

\* lines 50-55: exp_dim
exp_dim(man) ==
    IF man \in {"absent", "nokey"} THEN DefaultDim ELSE emb_from_family(man)

LdIdle ==
    /\ ldDir = FALSE
    /\ ldManifest = "absent"
    /\ ldFaiss = FALSE
    /\ ldDim = 0
    /\ ldRes = "idle"

\* any index location: no folder, or a folder with or without a manifest
\* and with or without an index of some dimension
LdInit ==
    /\ ldDir \in BOOLEAN
    /\ ldManifest \in ManifestKinds
    /\ ldFaiss \in BOOLEAN
    /\ ldDim \in IndexDims
    /\ ldDir = FALSE => (ldManifest = "absent" /\ ldFaiss = FALSE)
    /\ ldFaiss = FALSE => ldDim = MiniLMDim
    /\ ldRes = "called"

\* load_index, lines 47-59
LoadIndex ==
    /\ ldRes = "called"
    /\ ldRes' =
          IF ~ldDir THEN "FileNotFoundError"
          ELSE IF exp_dim(ldManifest) = 0 THEN "ValueError"
          ELSE IF ~ldFaiss THEN "load_local error"
          ELSE IF ldDim # exp_dim(ldManifest) THEN "RuntimeError"
          ELSE "returned"
    /\ UNCHANGED <<ldDir, ldManifest, ldFaiss, ldDim, nonLdVars>>

LdNext == LoadIndex

(***************************************************************************)
(* textbook_to_html.py: xml_to_html_paragraphs, from the collected items   *)
(* to the list of paragraphs                                               *)
(***************************************************************************)
MaxXmlRuns == 3

LineTol == 6
ParaTol == 18

\* a <text> node with text: (page, top, left, text), the text a string of
\* characters without blanks at its ends
Run(p, y, x, txt) == [p |-> p, y |-> y, x |-> x, txt |-> <<txt>>]

XmlRuns ==
    { Run(1, 100, 10, "A"), Run(1, 100, 50, "B"), Run(1, 130, 10, "C"),
      Run(1, 105, 30, "D"), Run(1, 110, 20, "E"), Run(1, 106, 60, "I"),
      Run(1, 118, 10, "G"), Run(1, 100, 10, "H"), Run(1, 124, 40, "J"),
      Run(2, 100, 10, "F") }

\* the items in document order: at most MaxXmlRuns different runs
XmlInputs ==
    { s \in UNION { [1..n -> XmlRuns] : n \in 0..MaxXmlRuns } :
         \A i, j \in 1..Len(s) : i # j => s[i] # s[j] }

Abs(n) == IF n < 0 THEN -n ELSE n

\* the sort keys: (r[0], r[1], r[2]) of line 129, r[2] of line 145
KeyLe(kind, a, b) ==
    IF kind = "left"
    THEN a.x <= b.x
    ELSE \/ a.p < b.p
         \/ a.p = b.p /\ a.y < b.y
         \/ a.p = b.p /\ a.y = b.y /\ a.x <= b.x

\* list.sort is stable: an item goes behind the items that are not greater
RECURSIVE InsertSorted(_, _, _)
InsertSorted(kind, r, s) ==
    IF s = << >> THEN <<r>>
    ELSE IF KeyLe(kind, Head(s), r)
    THEN <<Head(s)>> \o InsertSorted(kind, r, Tail(s))
    ELSE <<r>> \o s

RECURSIVE SortedBy(_, _)
SortedBy(kind, s) ==
    IF s = << >> THEN << >>
    ELSE InsertSorted(kind, s[Len(s)], SortedBy(kind, SubSeq(s, 1, Len(s) - 1)))

\* " ".join(parts)
RECURSIVE JoinSpace(_)
JoinSpace(parts) ==
    IF parts = << >> THEN << >>
    ELSE IF Len(parts) = 1 THEN parts[1]
    ELSE parts[1] \o <<" ">> \o JoinSpace(Tail(parts))

\* flush_line, lines 142-149: the new out_lines
flush_line(tokens, lines) ==
    IF tokens # << >>
    THEN LET srt == SortedBy("left", tokens)
             line == JoinSpace([i \in 1..Len(srt) |-> srt[i].txt])
         IN  IF line # << >> THEN Append(lines, line) ELSE lines
    ELSE lines

\* flush_paragraph, lines 151-155: the new paragraphs
flush_paragraph(lines, pars) ==
    IF lines # << >> THEN Append(pars, JoinSpace(lines)) ELSE pars

\* the mutant of NewLine: a change of exactly line_tol starts a line
NewLineGe(y, cy) == Abs(y - cy) >= LineTol

\* line 164: abs(y - curr_y) > line_tol
NewLine(y, cy) == Abs(y - cy) > LineTol

\* the mutant of NewParagraph: a change of exactly para_tol starts a paragraph
NewParagraphGe(y, cy) == Abs(y - cy) >= ParaTol

\* line 166: abs(y - curr_y) > para_tol
NewParagraph(y, cy) == Abs(y - cy) > ParaTol

NoPage == 0
NoY == -1

XmlIdle ==
    /\ xItems = << >>
    /\ xPc = "idle"
    /\ xSorted = << >>
    /\ xIdx = 0
    /\ curr_p = NoPage
    /\ curr_y = NoY
    /\ line_tokens = << >>
    /\ out_lines = << >>
    /\ paragraphs = << >>
    /\ xLineNo = << >>
    /\ xParaNo = << >>

\* lines 113-125 done: the items in document order
XmlInit ==
    /\ xItems \in XmlInputs
    /\ xPc = "sort"
    /\ xSorted = << >>
    /\ xIdx = 0
    /\ curr_p = NoPage
    /\ curr_y = NoY
    /\ line_tokens = << >>
    /\ out_lines = << >>
    /\ paragraphs = << >>
    /\ xLineNo = << >>
    /\ xParaNo = << >>

\* lines 127-140
XmlSort ==
    /\ xPc = "sort"
    /\ IF xItems = << >>
       THEN /\ xPc' = "done"
            /\ UNCHANGED <<xSorted, xIdx>>
       ELSE /\ xSorted' = SortedBy("page-top-left", xItems)
            /\ xIdx' = 1
            /\ xPc' = "loop"
    /\ UNCHANGED <<xItems, curr_p, curr_y, line_tokens, out_lines, paragraphs,
                   xLineNo, xParaNo, nonXmlVars>>

\* lines 157-169: one turn of the loop; xLineNo and xParaNo note how many
\* lines and paragraphs were begun before the item was put into its line
XmlItem ==
    /\ xPc = "loop"
    /\ xIdx <= Len(xSorted)
    /\ LET it == xSorted[xIdx]
           pageChange == curr_p # it.p
           \* lines 158-162
           ol1 == IF pageChange THEN flush_line(line_tokens, out_lines) ELSE out_lines
           lt1 == IF pageChange THEN << >> ELSE line_tokens
           ps1 == IF pageChange THEN flush_paragraph(ol1, paragraphs) ELSE paragraphs
           ol2 == IF pageChange THEN << >> ELSE ol1
           cy1 == IF pageChange THEN it.y ELSE curr_y
           \* lines 164-168
           newLine == cy1 = NoY \/ NewLine(it.y, cy1)
           newPar == newLine /\ cy1 # NoY /\ NewParagraph(it.y, cy1)
           ol3 == IF newLine THEN flush_line(lt1, ol2) ELSE ol2
           lt3 == IF newLine THEN << >> ELSE lt1
           ps3 == IF newPar THEN flush_paragraph(ol3, ps1) ELSE ps1
           ol4 == IF newPar THEN << >> ELSE ol3
           lineBreak == xIdx > 1 /\ (pageChange \/ newLine)
           parBreak == xIdx > 1 /\ (pageChange \/ newPar)
       IN  /\ curr_p' = it.p
           /\ curr_y' = IF newLine THEN it.y ELSE cy1
           /\ line_tokens' = Append(lt3, it)
           /\ out_lines' = ol4
           /\ paragraphs' = ps3
           /\ xLineNo' = Append(xLineNo,
                 IF xIdx = 1 THEN 1
                 ELSE xLineNo[xIdx - 1] + (IF lineBreak THEN 1 ELSE 0))
           /\ xParaNo' = Append(xParaNo,
                 IF xIdx = 1 THEN 1
                 ELSE xParaNo[xIdx - 1] + (IF parBreak THEN 1 ELSE 0))
    /\ xIdx' = xIdx + 1
    /\ UNCHANGED <<xItems, xPc, xSorted, nonXmlVars>>

\* lines 171-174: the last line and paragraph are flushed; the empty
\* paragraphs are left out
XmlFlush ==
    /\ xPc = "loop"
    /\ xIdx > Len(xSorted)
    /\ LET ol == flush_line(line_tokens, out_lines)
           ps == flush_paragraph(ol, paragraphs)
       IN  /\ line_tokens' = << >>
           /\ out_lines' = << >>
           /\ paragraphs' = SelectSeq(ps, LAMBDA par : par # << >>)
    /\ xPc' = "done"
    /\ UNCHANGED <<xItems, xSorted, xIdx, curr_p, curr_y, xLineNo, xParaNo,
                   nonXmlVars>>

XmlNext ==
    \/ XmlSort
    \/ XmlItem
    \/ XmlFlush

(***************************************************************************)
(* html_to_slide_docs of encode_corpus.py and of ingest_slides_html.py on  *)
(* a document of div elements                                              *)
(***************************************************************************)
MaxDivs == 3
MaxSlide == 3

\* a div of the document: num is N for the id pageN-div and 0 for any other
\* id; txt is its cleaned text, "" when it has none
SlideDivs == [num : 0..MaxSlide, txt : {"", "a", "b"}]

SlideInputs == UNION { [1..n -> SlideDivs] : n \in 0..MaxDivs }

\* list.sort(key=lambda t: t[0]) is stable
RECURSIVE InsertByNum(_, _)
InsertByNum(b, s) ==
    IF s = << >> THEN <<b>>
    ELSE IF Head(s).num <= b.num
    THEN <<Head(s)>> \o InsertByNum(b, Tail(s))
    ELSE <<b>> \o s

RECURSIVE SortByNum(_)
SortByNum(s) ==
    IF s = << >> THEN << >>
    ELSE InsertByNum(s[Len(s)], SortByNum(SubSeq(s, 1, Len(s) - 1)))

\* the mutant of SlideSorted: the blocks stay in document order
SlideUnsorted(blocks) == blocks

\* encode_corpus.py line 115, ingest_slides_html.py line 79
SlideSorted(blocks) == SortByNum(blocks)

\* SLIDE_ID_PAT / find_slide_number: the div is a slide container
IsSlideDiv(d) == d.num # 0

\* the chunk of a slide container
SlideDoc(d) == [slide |-> d.num, content |-> d.txt]

\* the fallback of both functions for a document without headings: the body
\* text, if any, as one chunk without a slide number
BodyDocs(divs) ==
    IF \E i \in 1..Len(divs) : divs[i].txt # ""
    THEN << [slide |-> 0, content |-> "body"] >>
    ELSE << >>

SlIdle ==
    /\ sDivs = << >>
    /\ sPc = "idle"
    /\ sBy = "none"
    /\ sDocs = << >>

SlInit ==
    /\ sDivs \in SlideInputs
    /\ sPc = "called"
    /\ sBy = "none"
    /\ sDocs = << >>

\* encode_corpus.py html_to_slide_docs, lines 105-155: every matching div is
\* kept, the empty ones are passed over after the sort
SlideDocsEncodeCorpus ==
    /\ sPc = "called"
    /\ LET divs == SelectSeq(sDivs, IsSlideDiv)
           srt == SlideSorted(divs)
           kept == SelectSeq(srt, LAMBDA d : d.txt # "")
       IN  sDocs' = IF divs # << >>
                    THEN [i \in 1..Len(kept) |-> SlideDoc(kept[i])]
                    ELSE BodyDocs(sDivs)
    /\ sBy' = "encode_corpus"
    /\ sPc' = "done"
    /\ UNCHANGED <<sDivs, nonSlVars>>

\* ingest_slides_html.py html_to_slide_docs, lines 60-132: only the matching
\* divs with text are kept, then sorted
SlideDocsIngest ==
    /\ sPc = "called"
    /\ LET slide_blocks == SelectSeq(sDivs, LAMBDA d : IsSlideDiv(d) /\ d.txt # "")
           srt == SlideSorted(slide_blocks)
       IN  sDocs' = IF slide_blocks # << >>
                    THEN [i \in 1..Len(srt) |-> SlideDoc(srt[i])]
                    ELSE BodyDocs(sDivs)
    /\ sBy' = "ingest_slides_html"
    /\ sPc' = "done"
    /\ UNCHANGED <<sDivs, nonSlVars>>

SlNext ==
    \/ SlideDocsEncodeCorpus
    \/ SlideDocsIngest

(***************************************************************************)
(* The index build of encode_corpus.py (lines 205-223), of                 *)
(* encoding_html_to_faiss.py (lines 148-172) and of ingest_slides_html.py  *)
(* (lines 181-192), one call of the vector store at a time                 *)
(***************************************************************************)
MaxNewDocs == 130

BATCH == 64

Scripts == {"encode_corpus", "encoding_html_to_faiss", "ingest_slides_html"}

\* the chunks from .. to of all_docs, given to one call of from_documents or
\* add_documents
Batch(from, to) == [from |-> from, to |-> to]

BIdle ==
    /\ bScript = "none"
    /\ bN = 0
    /\ bHasIndex = FALSE
    /\ bPc = "idle"
    /\ bNext = 1
    /\ bBatches = << >>
    /\ bDisk = 0

\* all_docs is made: bN chunks; the index location holds an index or not
BInit ==
    /\ bScript \in Scripts
    /\ bN \in 0..MaxNewDocs
    /\ bHasIndex \in BOOLEAN
    /\ bPc = "start"
    /\ bNext = 1
    /\ bBatches = << >>
    /\ bDisk = 0

BFrame == UNCHANGED <<bScript, bN, bHasIndex, nonBVars>>

\* encode_corpus.py lines 205-206, encoding_html_to_faiss.py lines 148-149
EmptyError ==
    /\ bPc = "start"
    /\ bScript # "ingest_slides_html"
    /\ bN = 0
    /\ bPc' = "empty_error"
    /\ UNCHANGED <<bNext, bBatches, bDisk>>
    /\ BFrame

\* FAISS.load_local, encode_corpus.py line 211, encoding_html_to_faiss.py
\* line 159
LoadLocal ==
    /\ bPc = "start"
    /\ bScript # "ingest_slides_html"
    /\ bN > 0
    /\ bHasIndex
    /\ bPc' = "add"
    /\ UNCHANGED <<bNext, bBatches, bDisk>>
    /\ BFrame

\* FAISS.from_documents(head), encode_corpus.py lines 216-218,
\* encoding_html_to_faiss.py lines 155, 166
FromDocuments ==
    /\ bPc = "start"
    /\ bScript # "ingest_slides_html"
    /\ bN > 0
    /\ ~bHasIndex
    /\ bBatches' = <<Batch(1, Min2(BATCH, bN))>>
    /\ bNext' = BATCH + 1
    /\ bPc' = "add"
    /\ UNCHANGED bDisk
    /\ BFrame

\* vs.add_documents(all_docs[i:i+BATCH]), one turn of the loops of
\* encode_corpus.py lines 212-213, 219-220 and encoding_html_to_faiss.py
\* lines 161-162, 168-169
AddBatch ==
    /\ bPc = "add"
    /\ bNext <= bN
    /\ bBatches' = Append(bBatches, Batch(bNext, Min2(bNext + BATCH - 1, bN)))
    /\ bNext' = bNext + BATCH
    /\ UNCHANGED <<bPc, bDisk>>
    /\ BFrame

\* vs.save_local after the loop, encode_corpus.py lines 214, 221,
\* encoding_html_to_faiss.py lines 163, 170
SaveLocal ==
    /\ bPc = "add"
    /\ bNext > bN
    /\ bDisk' = bN
    /\ bPc' = "manifest"
    /\ UNCHANGED <<bNext, bBatches>>
    /\ BFrame

\* ingest_slides_html.py lines 181-188: all_docs goes to one add_documents or
\* from_documents call, then save_local; nothing is added or saved when an
\* index is there and all_docs is empty
IngestAddAll ==
    /\ bPc = "start"
    /\ bScript = "ingest_slides_html"
    /\ IF bN > 0
       THEN /\ bBatches' = <<Batch(1, bN)>>
            /\ bNext' = bN + 1
            /\ bDisk' = bN
       ELSE UNCHANGED <<bBatches, bNext, bDisk>>
    /\ bPc' = "manifest"
    /\ BFrame

\* save_manifest / manifest_path.write_text
WriteManifest ==
    /\ bPc = "manifest"
    /\ bPc' = "done"
    /\ UNCHANGED <<bNext, bBatches, bDisk>>
    /\ BFrame

BNext ==
    \/ EmptyError
    \/ LoadLocal
    \/ FromDocuments
    \/ AddBatch
    \/ SaveLocal
    \/ IngestAddAll
    \/ WriteManifest

(***************************************************************************)
(* Output paths (textbook_to_html.py): main collects the PDFs with a       *)
(* recursive glob, convert_one names every output after safe_stem of the   *)
(* input alone, all in the one output directory, and the cascade derives   *)
(* the pdftohtml path from the output's name.  A file name is a sequence   *)
(* of one-character strings; an input is a directory under the input path  *)
(* and the name without its ".pdf".                                        *)
(***************************************************************************)
StemCut == 120

Long(c) == [i \in 1..(StemCut + 1) |-> IF i = StemCut + 1 THEN c ELSE "a"]

StemNames ==
    { <<"a">>, <<"b">>, <<"a", " ", "b">>, <<"a", "_", "b">>,
      <<"a", "#", "b">>, <<"a", "#", "#", "b">>, <<" ", "a">>,
      <<"a", ".", "b">>, <<"a", ".", "c">>, <<" ">>, <<"#">>, <<"_">>,
      <<"f", "i", "l", "e">>, <<"c", "-", "1">>, Long("a"), Long("b") }

StemDirs == {"", "part1", "part2"}

InputPaths == [dir : StemDirs, stem : StemNames]

SafeChars == {"a", "b", "c", "e", "f", "i", "l", "1", "_", ".", "-"}

SetMax(S) == CHOOSE x \in S : \A y \in S : y <= x
SetMin(S) == CHOOSE x \in S : \A y \in S : x <= y

Strip(s) ==
    LET ink == {i \in 1..Len(s) : s[i] # " "}
    IN  IF ink = {} THEN <<>> ELSE SubSeq(s, SetMin(ink), SetMax(ink))

ReplaceSpace(s) == [i \in 1..Len(s) |-> IF s[i] = " " THEN "_" ELSE s[i]]

(* re.sub(r"[^A-Za-z0-9_.-]+", "_", s): every maximal run of other          *)
(* characters becomes one underscore.                                      *)
SubUnsafe(s) ==
    LET kept == {i \in 1..Len(s) :
                    s[i] \in SafeChars \/ i = 1 \/ s[i - 1] \in SafeChars}
        at(k) == CHOOSE i \in kept : Cardinality({j \in kept : j <= i}) = k
    IN  IF kept = 1..Len(s) /\ \A i \in kept : s[i] \in SafeChars THEN s
        ELSE [k \in 1..Cardinality(kept) |->
                 IF s[at(k)] \in SafeChars THEN s[at(k)] ELSE "_"]

safe_stem(path) ==
    LET stem == SubUnsafe(ReplaceSpace(Strip(path.stem)))
        cut  == SubSeq(stem, 1, Min2(StemCut, Len(stem)))
    IN  IF cut = <<>> THEN <<"f", "i", "l", "e">> ELSE cut

RFindDot(s) == SetMax({0} \cup {i \in 1..Len(s) : s[i] = "."})

PathStem(name) ==
    LET i == RFindDot(name)
    IN  IF 1 < i /\ i < Len(name) THEN SubSeq(name, 1, i - 1) ELSE name

WithSuffix(name, suffix) == PathStem(name) \o suffix

DotHtml == <<".", "h", "t", "m", "l">>
DotXml  == <<".", "x", "m", "l">>

OutHtml(path) == safe_stem(path) \o DotHtml

XmlPath(out_html) ==
    LET base     == WithSuffix(out_html, <<>>)
        xml_base == PathStem(base) \o <<"_", "x", "m", "l">>
    IN  WithSuffix(xml_base, DotXml)

NoPath == <<>>

StIdle ==
    /\ stPdfs = <<>>
    /\ stOut = <<>>
    /\ stXml = <<>>

StInit ==
    /\ stPdfs \in {pq \in InputPaths \X InputPaths : pq[1] # pq[2]}
    /\ stOut = [i \in 1..2 |-> NoPath]
    /\ stXml = [i \in 1..2 |-> NoPath]

(* convert_one, line 294: the output path of input i. *)
ConvertOnePath(i) ==
    /\ stOut[i] = NoPath
    /\ stOut' = [stOut EXCEPT ![i] = OutHtml(stPdfs[i])]
    /\ UNCHANGED <<stPdfs, stXml>>
    /\ UNCHANGED nonStVars

(* The cascade of input i comes to pdftohtml -xml, lines 249-253. *)
CascadeXmlPath(i) ==
    /\ stOut[i] # NoPath
    /\ stXml[i] = NoPath
    /\ stXml' = [stXml EXCEPT ![i] = XmlPath(stOut[i])]
    /\ UNCHANGED <<stPdfs, stOut>>
    /\ UNCHANGED nonStVars

StNext ==
    \/ \E i \in 1..2 : ConvertOnePath(i)
    \/ \E i \in 1..2 : CascadeXmlPath(i)

(***************************************************************************)
(* Word windows (encode_corpus.py lines 85-101 and 139-147,                *)
(* encoding_html_to_faiss.py lines 88-104): one section's text is split    *)
(* into words, and the loop over range(0, len(words), step) joins every    *)
(* slice of step words into a chunk.  A word is a string without white     *)
(* space, a text is the sequence of its words and blanks.                  *)
(***************************************************************************)
MaxWords == 400

MinStepHtml == 120
TargetWordsHtml == 350
TargetWordsSlides == 320

\* the sites of the loop
WindowSites == {"textbook", "html", "slides"}

\* target_words: the defaults of the two functions of encode_corpus, which
\* main never overrides; --target_words is any integer
WindowTargets(site) ==
    IF site = "textbook" THEN {TargetWordsTextbook}
    ELSE IF site = "slides" THEN {TargetWordsSlides}
    ELSE {-1, 0, 1, MinStepHtml, MinStepHtml + 1, TargetWordsHtml}

\* lines 88 (encode_corpus), 90 (encoding_html_to_faiss); line 140 takes
\* target_words as it is
WindowStep(site, target) ==
    IF site = "textbook" THEN Max2(MinStepTextbook, target)
    ELSE IF site = "html" THEN Max2(MinStepHtml, target)
    ELSE target

\* txt.split() of a text of n words
WordsOf(n) == [i \in 1..n |-> ToString(i)]

\* " ".join(words)
JoinWords(words) ==
    [k \in 1..(2 * Len(words) - 1) |->
        IF k % 2 = 1 THEN words[(k + 1) \div 2] ELSE " "]

\* text.strip()
StripBlanks(text) ==
    LET ink == {i \in 1..Len(text) : text[i] # " "}
    IN  IF ink = {} THEN << >> ELSE SubSeq(text, SetMin(ink), SetMax(ink))

\* the mutant of Piece: the slice takes one word more, the first of the next
PieceOneMore(words, i, step) ==
    StripBlanks(JoinWords(SubSeq(words, i + 1, Min2(i + step + 1, Len(words)))))

\* " ".join(words[i:i+step]).strip()
Piece(words, i, step) ==
    StripBlanks(JoinWords(SubSeq(words, i + 1, Min2(i + step, Len(words)))))

WnIdle ==
    /\ wSite = "none"
    /\ wTarget = 0
    /\ wWords = << >>
    /\ wPc = "idle"
    /\ wI = 0
    /\ wDocs = << >>

WnInit ==
    /\ wSite \in WindowSites
    /\ wTarget \in WindowTargets(wSite)
    /\ wWords \in {WordsOf(n) : n \in 0..MaxWords}
    /\ wPc = "loop"
    /\ wI = 0
    /\ wDocs = << >>

\* one pass of the loop over range(0, len(words), step): a chunk is added
\* unless the piece is empty
WindowPass ==
    /\ wPc = "loop"
    /\ wI < Len(wWords)
    /\ LET step  == WindowStep(wSite, wTarget)
           piece == Piece(wWords, wI, step)
       IN  /\ wDocs' = IF piece = << >> THEN wDocs
                       ELSE Append(wDocs, [chunk |-> wI \div step,
                                           page_content |-> piece])
           /\ wI' = wI + step
    /\ UNCHANGED <<wSite, wTarget, wWords, wPc, nonWnVars>>

\* the range is exhausted
WindowEnd ==
    /\ wPc = "loop"
    /\ wI >= Len(wWords)
    /\ wPc' = "done"
    /\ UNCHANGED <<wSite, wTarget, wWords, wI, wDocs, nonWnVars>>

WnNext ==
    \/ WindowPass
    \/ WindowEnd

(***************************************************************************)
(* parse_quiz_filters (mini.py lines 90-112).  A request text is a         *)
(* sequence of tokens: a word, a number (a run of digits), a run of white  *)
(* space, a dash (hyphen or en dash).  Two numbers never stand side by     *)
(* side, nor two runs of white space.                                      *)
(***************************************************************************)
MaxChapterNo == 3

Ws == [k |-> "ws", w |-> " ", n |-> 0]
Hyphen == [k |-> "dash", w |-> "-", n |-> 0]
EnDash == [k |-> "dash", w |-> "en dash", n |-> 0]
Num(n) == N(n, "")

ChapterNos == 1..MaxChapterNo

QuizPhrases ==
    { <<W(w)>> : w \in {"quiz", "Algorithms", "Goodrich", "tamassia",
                        "DISCRETE", "combinatorics"} }
    \cup { <<W("Chapter"), Ws, Num(n)>> : n \in ChapterNos }
    \cup { <<W("chapters"), Ws, Num(n)>> : n \in ChapterNos }
    \cup { <<W("chapter"), Ws, Num(n), W("x")>> : n \in ChapterNos }
    \cup { <<W("chapter"), Num(n)>> : n \in ChapterNos }
    \cup { <<W("subchapter"), Ws, Num(n)>> : n \in ChapterNos }
    \cup { <<W("chapters"), Ws, Num(a), Hyphen, Num(b)>> :
              a \in ChapterNos, b \in ChapterNos }
    \cup { <<W("CHAPTER"), Ws, Num(a), Ws, EnDash, Ws, Num(b)>> :
              a \in ChapterNos, b \in ChapterNos }

\* a request: one phrase, or two with white space between
QuizTexts ==
    QuizPhrases \cup { p \o <<Ws>> \o q : p \in QuizPhrases, q \in QuizPhrases }

\* str.lower() of a word
LowerWord(w) ==
    CASE w = "Algorithms" -> "algorithms"
      [] w = "Goodrich" -> "goodrich"
      [] w = "DISCRETE" -> "discrete"
      [] w \in {"Chapter", "CHAPTER"} -> "chapter"
      [] OTHER -> w

\* line 94: text.lower()
LowerText(text) ==
    [i \in 1..Len(text) |->
        IF text[i].k = "word" THEN W(LowerWord(text[i].w)) ELSE text[i]]

\* kw in text_l: the words a keyword is part of
KeywordIn(kw, text) ==
    \E i \in 1..Len(text) :
       /\ text[i].k = "word"
       /\ <<kw, text[i].w>> \in
             { <<"algorithm", "algorithms">>, <<"goodrich", "goodrich">>,
               <<"tamassia", "tamassia">>, <<"discrete", "discrete">>,
               <<"combinator", "combinatorics">> }

\* lines 96-100
BookOf(text_l) ==
    IF KeywordIn("algorithm", text_l) \/ KeywordIn("goodrich", text_l)
       \/ KeywordIn("tamassia", text_l)
    THEN "algorithms"
    ELSE IF KeywordIn("discrete", text_l) \/ KeywordIn("combinator", text_l)
    THEN "discrete"
    ELSE "none"

\* the letters "chapter" end the word (no \b stands before them)
EndsChapter(tok) == tok.k = "word" /\ tok.w \in {"chapter", "subchapter"}
\* the letters "chapters" end the word
EndsChapters(tok) == tok.k = "word" /\ tok.w \in {"chapters"}

\* \s*: the position after white space, if any, at position j
SkipWs(text, j) == IF j <= Len(text) /\ text[j].k = "ws" THEN j + 1 ELSE j

\* CH_RANGE = chapters?\s+(\d+)\s*[-en dash]\s*(\d+) matches from token i
RangeAt(text, i) ==
    LET j == SkipWs(text, i + 3)
        k == SkipWs(text, j + 1)
    IN  /\ i + 2 <= Len(text)
        /\ EndsChapter(text[i]) \/ EndsChapters(text[i])
        /\ text[i + 1].k = "ws"
        /\ text[i + 2].k = "num"
        /\ j <= Len(text)
        /\ text[j].k = "dash"
        /\ k <= Len(text)
        /\ text[k].k = "num"

\* the second number of the range that matches from token i
RangeEnd(text, i) == text[SkipWs(text, SkipWs(text, i + 3) + 1)].n

\* CH_SINGLE = chapter\s+(\d+)\b matches from token i: after the digits
\* comes the end, white space or a dash, never a letter
SingleAt(text, i) ==
    /\ i + 2 <= Len(text)
    /\ EndsChapter(text[i])
    /\ text[i + 1].k = "ws"
    /\ text[i + 2].k = "num"
    /\ i + 3 <= Len(text) => text[i + 3].k \in {"ws", "dash"}

\* CH_RANGE.search(text_l): the leftmost match, 0 for None
SearchRange(text) ==
    LET hits == {i \in 1..Len(text) : RangeAt(text, i)}
    IN  IF hits = {} THEN 0 ELSE SetMin(hits)

\* CH_SINGLE.search(text_l): the leftmost match, 0 for None
SearchSingle(text) ==
    LET hits == {i \in 1..Len(text) : SingleAt(text, i)}
    IN  IF hits = {} THEN 0 ELSE SetMin(hits)

\* the mutant of RangeChapters: the range is taken as written, a to b
RangeChaptersAsWritten(a, b) == a..b

\* lines 106-107
RangeChapters(a, b) == Min2(a, b)..Max2(a, b)

\* lines 103-110
ChaptersOf(text_l) ==
    LET m  == SearchRange(text_l)
        m2 == SearchSingle(text_l)
    IN  IF m # 0 THEN RangeChapters(text_l[m + 2].n, RangeEnd(text_l, m))
        ELSE IF m2 # 0 THEN {text_l[m2 + 2].n}
        ELSE {}

PsIdle ==
    /\ pText = << >>
    /\ pPc = "idle"
    /\ pBook = "none"
    /\ pChapters = {}

PsInit ==
    /\ pText \in QuizTexts
    /\ pPc = "book"
    /\ pBook = "none"
    /\ pChapters = {}

\* lines 94-100
ParseBook ==
    /\ pPc = "book"
    /\ pBook' = BookOf(LowerText(pText))
    /\ pPc' = "chapters"
    /\ UNCHANGED <<pText, pChapters, nonPsVars>>

\* lines 103-112
ParseChapters ==
    /\ pPc = "chapters"
    /\ pChapters' = ChaptersOf(LowerText(pText))
    /\ pPc' = "returned"
    /\ UNCHANGED <<pText, pBook, nonPsVars>>

PsNext ==
    \/ ParseBook
    \/ ParseChapters

(***************************************************************************)
(* The embedding provider: each ingest script picks EMBED and EMBED_FAMILY *)
(* from the environment when it is loaded (ingest_slides_html.py lines     *)
(* 11-19, encode_corpus.py lines 12-20, encoding_html_to_faiss.py lines    *)
(* 31-39), builds or extends the index with EMBED and writes EMBED_FAMILY  *)
(* into manifest.json; mini.py reads it back in load_index.  The index     *)
(* location is the one of the load part (ldDir, ldManifest, ldFaiss,       *)
(* ldDim).                                                                 *)
(***************************************************************************)
MaxFamilyRuns == 2

IngestScripts == {"encode_corpus", "encoding_html_to_faiss", "ingest_slides_html"}

\* values of RAG_FORCE_LOCAL ("0" when unset)
ForceValues == {"0", "1", "true", "TRUE", "yes"}

\* os.getenv("RAG_FORCE_LOCAL","0").lower()
LowerForce(v) == IF v = "TRUE" THEN "true" ELSE v

\* USE_OPENAI: encoding_html_to_faiss (line 31) looks at the key alone
UseOpenAI(script, key, force) ==
    /\ key
    /\ script # "encoding_html_to_faiss" => LowerForce(force) \notin {"1", "true"}

OpenAIModel == "text-embedding-3-small"
MiniLMModel == "sentence-transformers/all-MiniLM-L6-v2"

\* EMBED: the model and the width of its vectors
Embed(useOpenAI) ==
    IF useOpenAI THEN [model |-> OpenAIModel, dim |-> OpenAIDim]
    ELSE [model |-> MiniLMModel, dim |-> MiniLMDim]

NoEmbed == [model |-> "none", dim |-> 0]

\* the mutant of EmbedFamily: the OpenAI family is named after the large
\* model
EmbedFamilyLarge(script, useOpenAI) ==
    IF useOpenAI THEN "openai:text-embedding-3-large"
    ELSE IF script = "ingest_slides_html" THEN "hf:all-MiniLM-L6-v2"
    ELSE "hf:sentence-transformers/all-MiniLM-L6-v2"

\* EMBED_FAMILY
EmbedFamily(script, useOpenAI) ==
    IF useOpenAI THEN "openai:text-embedding-3-small"
    ELSE IF script = "ingest_slides_html" THEN "hf:all-MiniLM-L6-v2"
    ELSE "hf:sentence-transformers/all-MiniLM-L6-v2"

\* _emb_from_family, lines 33-38: the model, "ValueError" for line 39
emb_model_from_family(family) ==
    IF StripLower(family) = "openai:text-embedding-3-small"
    THEN OpenAIModel
    ELSE IF StripLower(family) \in
               {"hf:all-minilm-l6-v2", "hf:sentence-transformers/all-minilm-l6-v2"}
    THEN MiniLMModel
    ELSE "ValueError"

FmIdle ==
    /\ fRuns = 0
    /\ fScript = "none"
    /\ fKey = FALSE
    /\ fForce = "0"
    /\ fEmbed = NoEmbed

\* no index location yet, no script has run
FmInit ==
    /\ FmIdle
    /\ ldDir = FALSE
    /\ ldManifest = "absent"
    /\ ldFaiss = FALSE
    /\ ldDim = MiniLMDim
    /\ ldRes = "idle"

\* the index location after the run of one script: --fresh removes it; the
\* run ends early without documents (SystemExit) or when the vectors of
\* EMBED do not fit the index on disk (add_documents raises); else the index
\* is built or extended and the manifest written.  ingest_slides_html writes
\* the manifest also when nothing was added.
AfterRun(script, embed, family, fresh, ndocs) ==
    LET dir0   == ldDir /\ ~fresh
        man0   == IF fresh THEN "absent" ELSE ldManifest
        faiss0 == ldFaiss /\ ~fresh
        dim0   == IF fresh THEN MiniLMDim ELSE ldDim
        mkdir  == script = "encode_corpus" \/ (script = "encoding_html_to_faiss" /\ ndocs > 0)
        left   == [dir |-> dir0 \/ mkdir, man |-> man0, faiss |-> faiss0,
                   dim |-> dim0, wrote |-> FALSE]
        built  == [dir |-> TRUE, man |-> family, faiss |-> TRUE,
                   dim |-> embed.dim, wrote |-> TRUE]
        kept   == [dir |-> TRUE, man |-> family, faiss |-> TRUE,
                   dim |-> dim0, wrote |-> TRUE]
    IN  IF script = "ingest_slides_html"
        THEN IF ~dir0 THEN built
             ELSE IF ~faiss0 THEN left
             ELSE IF ndocs = 0 THEN kept
             ELSE IF dim0 # embed.dim THEN left
             ELSE kept
        ELSE IF ndocs = 0 THEN left
             ELSE IF ~faiss0 THEN built
             ELSE IF dim0 # embed.dim THEN left
             ELSE kept

\* one run of an ingest script under some environment
IngestRun(script, key, force, fresh, ndocs) ==
    /\ ldRes # "called"
    /\ fRuns < MaxFamilyRuns
    /\ LET useOpenAI == UseOpenAI(script, key, force)
           after == AfterRun(script, Embed(useOpenAI),
                             EmbedFamily(script, useOpenAI), fresh, ndocs)
       IN  /\ ldDir' = after.dir
           /\ ldManifest' = after.man
           /\ ldFaiss' = after.faiss
           /\ ldDim' = after.dim
           /\ fEmbed' = IF after.wrote THEN Embed(useOpenAI)
                        ELSE IF fresh THEN NoEmbed ELSE fEmbed
    /\ fRuns' = fRuns + 1
    /\ fScript' = script
    /\ fKey' = key
    /\ fForce' = force
    /\ ldRes' = "idle"
    /\ UNCHANGED nonLdFmVars

\* mini.py is started: it calls load_index
MiniStart ==
    /\ ldRes # "called"
    /\ ldRes' = "called"
    /\ UNCHANGED <<ldDir, ldManifest, ldFaiss, ldDim, nonLdVars>>

FmNext ==
    \/ \E script \in IngestScripts, key \in BOOLEAN, force \in ForceValues,
          fresh \in BOOLEAN, ndocs \in 0..1 :
          IngestRun(script, key, force, fresh, ndocs)
    \/ MiniStart
    \/ LoadIndex

(***************************************************************************)
(* Specifications                                                          *)
(***************************************************************************)
\* batch conversion of PDFs: textbook_to_html.py
Init == ConvInit /\ LyIdle /\ ChIdle /\ RtIdle /\ IngIdle /\ QzIdle /\ LdIdle /\ XmlIdle /\ SlIdle /\ BIdle /\ StIdle /\ WnIdle /\ PsIdle /\ FmIdle
Spec == Init /\ [][ConvNext]_vars

\* is_low_yield over drawn texts, page counts and thresholds
InitLowYield == ConvIdle /\ LyInit /\ ChIdle /\ RtIdle /\ IngIdle /\ QzIdle /\ LdIdle /\ XmlIdle /\ SlIdle /\ BIdle /\ StIdle /\ WnIdle /\ PsIdle /\ FmIdle
SpecLowYield == InitLowYield /\ [][LyNext]_vars

\* html_to_textbook_docs over drawn documents
InitChunk == ConvIdle /\ LyIdle /\ ChInit /\ RtIdle /\ IngIdle /\ QzIdle /\ LdIdle /\ XmlIdle /\ SlIdle /\ BIdle /\ StIdle /\ WnIdle /\ PsIdle /\ FmIdle
SpecChunk == InitChunk /\ [][ChNext]_vars

\* build_hybrid_retriever_for_subset over drawn subsets and k
InitRetrieve == ConvIdle /\ LyIdle /\ ChIdle /\ RtInit /\ IngIdle /\ QzIdle /\ LdIdle /\ XmlIdle /\ SlIdle /\ BIdle /\ StIdle /\ WnIdle /\ PsIdle /\ FmIdle
SpecRetrieve == InitRetrieve /\ [][RtNext]_vars

\* the ingest scripts run, and the files change, in any order
InitIngest == ConvIdle /\ LyIdle /\ ChIdle /\ RtIdle /\ IngInit /\ QzIdle /\ LdIdle /\ XmlIdle /\ SlIdle /\ BIdle /\ StIdle /\ WnIdle /\ PsIdle /\ FmIdle
SpecIngest == InitIngest /\ [][IngNext]_vars

\* the request loop over any corpus
InitQuiz == ConvIdle /\ LyIdle /\ ChIdle /\ RtIdle /\ IngIdle /\ QzInit /\ LdIdle /\ XmlIdle /\ SlIdle /\ BIdle /\ StIdle /\ WnIdle /\ PsIdle /\ FmIdle
SpecQuiz == InitQuiz /\ [][QzNext]_vars

\* load_index on any index location
InitLoad ==
    ConvIdle /\ LyIdle /\ ChIdle /\ RtIdle /\ IngIdle /\ QzIdle /\ LdInit
       /\ XmlIdle /\ SlIdle /\ BIdle /\ StIdle /\ WnIdle /\ PsIdle /\ FmIdle
SpecLoad == InitLoad /\ [][LdNext]_vars

\* xml_to_html_paragraphs on any items
InitXml ==
    ConvIdle /\ LyIdle /\ ChIdle /\ RtIdle /\ IngIdle /\ QzIdle /\ LdIdle
       /\ XmlInit /\ SlIdle /\ BIdle /\ StIdle /\ WnIdle /\ PsIdle /\ FmIdle
SpecXml == InitXml /\ [][XmlNext]_vars

\* the two slide chunkers on any document of divs
InitSlides ==
    ConvIdle /\ LyIdle /\ ChIdle /\ RtIdle /\ IngIdle /\ QzIdle /\ LdIdle
       /\ XmlIdle /\ SlInit /\ BIdle /\ StIdle /\ WnIdle /\ PsIdle /\ FmIdle
SpecSlides == InitSlides /\ [][SlNext]_vars

\* the build of any number of chunks by any of the three scripts
InitBuild ==
    ConvIdle /\ LyIdle /\ ChIdle /\ RtIdle /\ IngIdle /\ QzIdle /\ LdIdle
       /\ XmlIdle /\ SlIdle /\ BInit /\ StIdle /\ WnIdle /\ PsIdle /\ FmIdle
SpecBuild == InitBuild /\ [][BNext]_vars

\* convert_one's output paths for any two inputs found under the input path
InitStem ==
    /\ ConvIdle /\ LyIdle /\ ChIdle /\ RtIdle /\ IngIdle
    /\ QzIdle /\ LdIdle /\ XmlIdle /\ SlIdle /\ BIdle /\ StInit /\ WnIdle /\ PsIdle /\ FmIdle
SpecStem == InitStem /\ [][StNext]_vars

\* the word windows of any section text at any of the sites
InitWindow ==
    /\ ConvIdle /\ LyIdle /\ ChIdle /\ RtIdle /\ IngIdle /\ QzIdle
    /\ LdIdle /\ XmlIdle /\ SlIdle /\ BIdle /\ StIdle /\ WnInit /\ PsIdle /\ FmIdle
SpecWindow == InitWindow /\ [][WnNext]_vars

\* parse_quiz_filters on any request text
InitParse ==
    /\ ConvIdle /\ LyIdle /\ ChIdle /\ RtIdle /\ IngIdle /\ QzIdle
    /\ LdIdle /\ XmlIdle /\ SlIdle /\ BIdle /\ StIdle /\ WnIdle /\ PsInit /\ FmIdle
SpecParse == InitParse /\ [][PsNext]_vars

\* the ingest scripts under any environment, and load_index after them
InitFamily ==
    /\ ConvIdle /\ LyIdle /\ ChIdle /\ RtIdle /\ IngIdle /\ QzIdle
    /\ XmlIdle /\ SlIdle /\ BIdle /\ StIdle /\ WnIdle /\ PsIdle /\ FmInit
SpecFamily == InitFamily /\ [][FmNext]_vars

(***************************************************************************)
(* Claims                                                                  *)
(***************************************************************************)
Last(s) == s[Len(s)]

\* C1: in the sequential and in the thread-pool mode an error raised while
\* one PDF is processed becomes that file's failure status and never aborts
\* the batch: main never leaves by an exception, and when it has ended every
\* input file has its status in the results and the report is printed.
C1_ErrorNeverAbortsBatch ==
    /\ mainPc \notin {"unwinding", "aborted"}
    /\ mainPc = "done" =>
          /\ reportPrinted
          /\ \A f \in Pdfs :
                /\ \E i \in 1..Len(results) : results[i] = f
                /\ status[f].tag \in {"OK", "FAIL", "ERROR"}

\* the status name of a method
StatusName(m) ==
    IF m \in {"pdftotext-layout", "pdftotext-default", "pdftotext-raw"}
    THEN "pdftotext"
    ELSE m

\* a method the environment and the flags make available
Available(m) ==
    /\ m = "mutool" => has_mutool
    /\ m = "ocr" => enable_ocr /\ has_ocrmypdf

\* C2: the methods are invoked in the fixed order pdftotext (layout,
\* default, raw), mutool, pdfminer, pdftohtml-xml, OCR, page-images, none
\* that is available being passed over; a method is invoked only while no
\* earlier result was accepted; an accepted result is written exactly once
\* and the method that gave it is the last one invoked.
C2_FixedOrderFirstAcceptedWins ==
    \A f \in Pdfs :
       LET inv == invoked[f]
       IN  /\ \A i \in 1..Len(inv) : \A j \in 1..Len(inv) :
                 i < j => Rank(inv[i]) < Rank(inv[j])
           /\ \A i \in 1..Len(inv) : \A r \in 1..Len(Methods) :
                 (r < Rank(inv[i]) /\ Available(Methods[r]))
                    => \E j \in 1..Len(inv) : inv[j] = Methods[r]
           /\ written[f] <= 1
           /\ written[f] = 1 =>
                 /\ pc[f] = "returned"
                 /\ inv # << >>
                 /\ status[f] = OkStatus(StatusName(Last(inv)))
                 /\ Last(inv) # "page-images"
           /\ (pc[f] = "returned" /\ status[f].tag = "OK"
                 /\ status[f].method # "page-images") => written[f] = 1

\* C2 witness: a result accepted late in the cascade, by OCR, after the
\* seven earlier invocations, written once
C2_Witness ==
    \E f \in Pdfs :
       /\ pc[f] = "returned"
       /\ status[f] = OkStatus("ocr")
       /\ written[f] = 1
       /\ Len(invoked[f]) = 7

C5_IntermediatesDeletedOnExit ==
    \A f \in Pdfs : pc[f] \in {"returned", "reported"} => tmpFiles[f] = {}

\* C3: is_low_yield is true for every empty text and for every pages <= 0;
\* for pages > 0 and a non-empty text it is true exactly when the
\* characters per page are fewer than the threshold.
C3_LowYieldIffBelowThreshold ==
    lyRes \in {"low", "ok"} =>
       /\ (lyText = 0 \/ lyPages <= 0) => lyRes = "low"
       /\ (lyText # 0 /\ lyPages > 0) =>
             (lyRes = "low" <=> (lyText \div lyPages) < lyThr)

\* C3 witness: a text of exactly threshold characters per page, on more
\* than one page, is not low-yield
C3_Witness ==
    /\ lyRes = "ok"
    /\ lyPages > 1
    /\ lyText = lyThr * lyPages

\* the document of the chapter round trip: "Chapter 1: Intro", a paragraph,
\* "Chapter 2", a paragraph
C6_ExampleDoc ==
    << H(<<W("Chapter"), N(1, ":"), W("Intro")>>), P(<<W("a")>>),
       H(<<W("Chapter"), N(2, "")>>), P(<<W("b")>>) >>

\* C6: for the headings "Chapter 1: Intro" and "Chapter 2" with paragraphs
\* between and after them, html_to_textbook_docs gives the text of the first
\* group as chapter 1 titled "Intro" and the text of the second group as
\* chapter 2 titled "Chapter 2": each chapter heading has a section of its
\* own, whose body is the block content up to the next chapter heading.
C6_ChapterRoundTrip ==
    (chPc = "done" /\ chDoc = C6_ExampleDoc) =>
       chDocs =
          << [chapter |-> 1, chapter_title |-> <<W("Intro")>>, chunk |-> 0,
              content |-> <<W("a")>>],
             [chapter |-> 2, chapter_title |-> DefaultTitle(2), chunk |-> 0,
              content |-> <<W("b")>>] >>

IngestSlidesIncremental ==
    /\ runs' = runs + 1
    /\ lastRun'.script = "ingest_slides_html"
    /\ ~lastRun'.fresh
    /\ idxDir /\ idxFaiss /\ manifest.present

\* C8: in ingest_slides_html, an index and a manifest being there and --fresh
\* not given, a file whose SHA-1 is the one the manifest records is neither
\* chunked nor embedded again, a file whose bytes changed is chunked again,
\* and the index gains the new chunks of the changed files and nothing else.
C8_UnchangedSkippedChangedRechunked ==
    [][ IngestSlidesIncremental =>
          /\ \A f \in Files :
                IF manifest.sha1[f] = Sha1(fileVer[f])
                THEN /\ f \notin lastRun'.chunked
                     /\ \A i \in 1..Len(lastRun'.added) : lastRun'.added[i].src # f
                ELSE /\ f \in lastRun'.chunked
                     /\ fileVer[f] # 0 =>
                           \E i \in 1..Len(lastRun'.added) :
                              /\ lastRun'.added[i].src = f
                              /\ lastRun'.added[i].ver = fileVer[f]
          /\ idxChunks' = idxChunks \o lastRun'.added ]_vars

\* C8 witness: an incremental run of ingest_slides_html that chunked one
\* changed file again and skipped an unchanged one
C8_Witness ==
    /\ lastRun.script = "ingest_slides_html"
    /\ ~lastRun.fresh
    /\ lastRun.hadManifest
    /\ lastRun.outcome = "ok"
    /\ lastRun.chunked # {}
    /\ lastRun.chunked # Files
    /\ lastRun.added # << >>

\* C9: for each of the three scripts, the second of two runs on unchanged
\* files without --fresh leaves the index with the chunks it had after the
\* first run, none of them indexed twice.
C9_SecondRunLeavesIndex ==
    [][ (runs' = runs + 1 /\ lastRun'.repeat) =>
          /\ { idxChunks'[i] : i \in 1..Len(idxChunks') } =
                { idxChunks[i] : i \in 1..Len(idxChunks) }
          /\ Len(idxChunks') = Len(idxChunks) ]_vars

\* C10: when no input file gives a chunk, each of the three scripts ends with
\* the empty-corpus error, the index location is as it was before the run
\* (absent if it was absent, with --fresh too), and no index holding a
\* placeholder chunk is made.
C10_EmptyCorpusFailsUntouched ==
    [][ (runs' = runs + 1 /\ lastRun'.zero) =>
          /\ lastRun'.outcome = "empty_error"
          /\ idxDir' = idxDir
          /\ idxFaiss' = idxFaiss
          /\ idxChunks' = idxChunks
          /\ manifest' = manifest
          /\ \A i \in 1..Len(idxChunks') : idxChunks'[i] # Placeholder ]_vars

\* C11: after any sequence of runs the manifest matches the index: every
\* chunk of the index with a file as its source was made from the bytes
\* whose SHA-1 the manifest records for that file, and every source with
\* chunks in the index has a manifest entry.
C11_ManifestMatchesIndex ==
    \A i \in 1..Len(idxChunks) :
       idxChunks[i].src \in Files =>
          /\ manifest.present
          /\ manifest.sha1[idxChunks[i].src] = Sha1(idxChunks[i].ver)

\* a step that is a run without --fresh that ends normally on an index that
\* was there
AppendRun ==
    /\ runs' = runs + 1
    /\ ~lastRun'.fresh
    /\ lastRun'.outcome = "ok"
    /\ idxDir /\ idxFaiss

\* C12: a run that appends to an existing index without --fresh and
\* completes keeps every chunk the index had: the index after the run is the
\* index before it followed by the added chunks.
C12_AppendKeepsChunks ==
    [][ AppendRun =>
          /\ Len(idxChunks') >= Len(idxChunks)
          /\ SubSeq(idxChunks', 1, Len(idxChunks)) = idxChunks ]_vars

\* C12 witness: a run of encode_corpus or encoding_html_to_faiss without
\* --fresh has added chunks to an index that held chunks before
C12_Witness ==
    /\ lastRun.script \in {"encode_corpus", "encoding_html_to_faiss"}
    /\ lastRun.outcome = "ok"
    /\ ~lastRun.fresh
    /\ lastRun.added # << >>
    /\ Len(idxChunks) > Len(lastRun.added)

\* C13: every chunk an ingest script puts into the index has a non-empty
\* content, and metadata with the keys source and doc_type, the doc_type
\* being textbook, slides or html.
C13_ChunksWellFormed ==
    \A i \in 1..Len(idxChunks) :
       /\ ContentOf(idxChunks[i]) # ""
       /\ "source" \in MetaKeys(idxChunks[i])
       /\ "doc_type" \in MetaKeys(idxChunks[i])
       /\ DocTypeOf(idxChunks[i]) \in {"textbook", "slides", "html"}

\* C14: a /quiz request whose filter matches no chunk of the corpus gets the
\* no-match message; no retriever is built and the completion service is
\* not called for it, nothing is raised, and the loop is back at the prompt
\* for the next request.
C14_NoMatchReported ==
    [][ (/\ qReqs' = qReqs + 1
         /\ qReq'.kind = "quiz"
         /\ \A d \in qDocs : ~FilterOk(d, qReq'.book, qReq'.chapters)) =>
          /\ qOut' = "nomatch"
          /\ qBuilt' = qBuilt
          /\ qCalls' = qCalls
          /\ qPc' = "prompt" ]_vars

\* C14 witness: a corpus with textbook chunks, a /quiz request for a chapter
\* none of them has, the no-match message printed
C14_Witness ==
    /\ qReq.kind = "quiz"
    /\ qReq.chapters # {}
    /\ \E d \in qDocs : d.st = "textbook"
    /\ qOut = "nomatch"
    /\ qPc = "prompt"
    /\ qBuilt = 0
    /\ qCalls = 0

\* the dimension C15 names for a manifest: 1536 for the OpenAI family, 384
\* for the MiniLM family, 1536 when no manifest is readable or it names no
\* family
C15_Dim ==
    CASE ldManifest \in {"openai:text-embedding-3-small",
                         " OpenAI:text-embedding-3-small "} -> 1536
      [] ldManifest \in {"hf:all-MiniLM-L6-v2", "HF:ALL-MINILM-L6-V2",
                         "hf:sentence-transformers/all-MiniLM-L6-v2"} -> 384
      [] ldManifest \in {"absent", "nokey"} -> 1536
      [] OTHER -> 0

\* C15: load_index never returns an index whose dimension differs from the
\* dimension of the embedding family of the manifest, and when an index of
\* another dimension was loaded it ends with the RuntimeError that names
\* the mismatch.
C15_DimensionMismatchFails ==
    /\ ldRes = "returned" => ldDim = C15_Dim
    /\ (ldRes \notin {"idle", "called"} /\ ldDir /\ ldFaiss
          /\ C15_Dim # 0 /\ ldDim # C15_Dim) => ldRes = "RuntimeError"

\* C15 witness: an index of dimension 1536 under a manifest of the MiniLM
\* family as ingest_slides_html writes it, refused with the RuntimeError
C15_Witness ==
    /\ ldManifest = "hf:all-MiniLM-L6-v2"
    /\ ldDim = 1536
    /\ ldRes = "RuntimeError"

\* C16: with --text-only the converter never emits page images: for no file
\* is the page-image step (pdftohtml rendering the pages) invoked, and no
\* output is made of page images.
C16_TextOnlyNoPageImages ==
    text_only =>
       \A f \in Pdfs :
          /\ \A i \in 1..Len(invoked[f]) : invoked[f][i] # "page-images"
          /\ outKind[f] # "images"

\* the top of the first run of the line that the i-th sorted run is in
LineTop(i) ==
    xSorted[CHOOSE k \in 1..i :
               /\ xLineNo[k] = xLineNo[i]
               /\ \A j \in 1..(k - 1) : xLineNo[j] # xLineNo[i]].y

\* the sorted runs of line l, and the lines of paragraph k
RunsOfLine(l) == SelectSeq(xSorted, LAMBDA r :
                    \E i \in 1..Len(xSorted) : xSorted[i] = r /\ xLineNo[i] = l)
LinesOfParagraph(k) ==
    { xLineNo[i] : i \in { j \in 1..Len(xSorted) : xParaNo[j] = k } }

\* the text of line l: its runs by left offset, a blank between two runs
LineText(l) ==
    LET srt == SortedBy("left", RunsOfLine(l))
    IN  JoinSpace([i \in 1..Len(srt) |-> srt[i].txt])

\* the text of paragraph k: its lines in order, a blank between two lines
RECURSIVE LinesText(_, _)
LinesText(l, last) ==
    IF l > last THEN << >>
    ELSE IF l = last THEN LineText(l)
    ELSE LineText(l) \o <<" ">> \o LinesText(l + 1, last)

ParagraphText(k) ==
    LET ls == LinesOfParagraph(k)
        first == CHOOSE l \in ls : \A m \in ls : l <= m
        last == CHOOSE l \in ls : \A m \in ls : l >= m
    IN  LinesText(first, last)

\* C18: xml_to_html_paragraphs takes the runs in the order sorted by (page,
\* top, left); a run begins a new paragraph exactly when its page differs
\* from the page of the run before it, or it begins a new line whose top is
\* more than 18 units from the top of the line before it (the top of a line
\* being the top of its first run); the paragraphs put out are the texts of
\* these groups; for the runs (1,100,50,'B'), (1,100,10,'A'), (1,130,10,'C')
\* they are 'A B' and 'C'; no paragraph is empty.
C18_ParagraphBreaks ==
    xPc = "done" =>
       /\ Len(xSorted) = Len(xItems)
       /\ \A r \in XmlRuns :
             (\E i \in 1..Len(xItems) : xItems[i] = r)
                <=> (\E i \in 1..Len(xSorted) : xSorted[i] = r)
       /\ \A i \in 2..Len(xSorted) :
             /\ xSorted[i - 1].p <= xSorted[i].p
             /\ xSorted[i - 1].p = xSorted[i].p => xSorted[i - 1].y <= xSorted[i].y
             /\ (xSorted[i - 1].p = xSorted[i].p /\ xSorted[i - 1].y = xSorted[i].y)
                   => xSorted[i - 1].x <= xSorted[i].x
       /\ \A i \in 2..Len(xSorted) :
             (xParaNo[i] # xParaNo[i - 1]) <=>
                \/ xSorted[i].p # xSorted[i - 1].p
                \/ /\ xLineNo[i] # xLineNo[i - 1]
                   /\ xSorted[i].y - LineTop(i - 1) > 18
       /\ xSorted # << >> =>
             /\ Len(paragraphs) = xParaNo[Len(xSorted)]
             /\ \A k \in 1..Len(paragraphs) : paragraphs[k] = ParagraphText(k)
       /\ xItems = <<Run(1, 100, 50, "B"), Run(1, 100, 10, "A"), Run(1, 130, 10, "C")>>
             => paragraphs = << <<"A", " ", "B">>, <<"C">> >>
       /\ \A k \in 1..Len(paragraphs) : paragraphs[k] # << >>

\* C18 witness: the runs B, A, C in this document order have been made into
\* two paragraphs
C18_Witness ==
    /\ xPc = "done"
    /\ xItems = <<Run(1, 100, 50, "B"), Run(1, 100, 10, "A"), Run(1, 130, 10, "C")>>
    /\ Len(paragraphs) = 2

\* C19 as stated: two runs that follow each other in sorted order on one
\* page are in the same line when their tops differ by no more than 6 (runs
\* at top 100, 105, 110 are one line), and each line is its runs by left
\* offset, joined by single blanks.
C19_LineWhileStepWithinTol ==
    xPc = "done" =>
       /\ \A i \in 2..Len(xSorted) :
             (/\ xSorted[i].p = xSorted[i - 1].p
              /\ xSorted[i].y - xSorted[i - 1].y <= 6)
                => xLineNo[i] = xLineNo[i - 1]
       /\ \A k \in 1..Len(paragraphs) : paragraphs[k] = ParagraphText(k)

\* C19, amended: a run stays in the line of the run before it exactly when
\* it is on the same page and its top is no more than 6 units from the top
\* of the first run of that line (runs at top 100 and 105 are one line, a
\* run at 110 begins the next); each line is its runs in non-decreasing left
\* offset, joined by single blanks.
C19_LineWhileWithinTolOfFirst ==
    xPc = "done" =>
       /\ \A i \in 2..Len(xSorted) :
             (xLineNo[i] = xLineNo[i - 1]) <=>
                /\ xSorted[i].p = xSorted[i - 1].p
                /\ xSorted[i].y - LineTop(i - 1) <= 6
       /\ \A i \in 2..Len(xSorted) : xLineNo[i] = xLineNo[i - 1] => xParaNo[i] = xParaNo[i - 1]
       /\ \A k \in 1..Len(paragraphs) : paragraphs[k] = ParagraphText(k)

\* C19 witness: of runs at top 100, 105 and 110 on one page the first two
\* are one line and the third begins the next, in the same paragraph
C19_Witness ==
    /\ xPc = "done"
    /\ Len(xSorted) = 3
    /\ xSorted[1].y = 100 /\ xSorted[2].y = 105 /\ xSorted[3].y = 110
    /\ xLineNo = <<1, 1, 2>>
    /\ paragraphs = << <<"A", " ", "D", " ", "E">> >>

\* how many elements of a sequence satisfy being the pair (num, txt)
C17_Count(seq, num, txt) ==
    Cardinality({ i \in 1..Len(seq) : seq[i] = <<num, txt>> })

C20_BatchesSavedOneByOne ==
    /\ \A i \in 1..Len(bBatches) :
          /\ bBatches[i].to - bBatches[i].from + 1 <= 64
          /\ bBatches[i].from = (IF i = 1 THEN 1 ELSE bBatches[i - 1].to + 1)
          /\ bBatches[i].from <= bBatches[i].to
    /\ Len(bBatches) >= 2 => bDisk >= bBatches[Len(bBatches) - 1].to
    /\ bPc = "done" =>
          /\ bDisk = bN
          /\ bN > 0 => bBatches[Len(bBatches)].to = bN

(* C21: no two distinct input files found under the input directory are    *)
(* given the same output HTML path or the same intermediate "_xml" path.   *)
C21_NoSharedOutputPath ==
    \A i \in DOMAIN stOut : \A j \in DOMAIN stOut :
        i # j =>
            /\ (stOut[i] # NoPath /\ stOut[j] # NoPath => stOut[i] # stOut[j])
            /\ (stXml[i] # NoPath /\ stXml[j] # NoPath => stXml[i] # stXml[j])

\* a cascade under way or just returned: its page count is the one line 215
\* has read
InCascade(f) == pc[f] \notin {"wait", "pdfinfo", "reported"}

(* C22 as stated: when pdf_page_count returns 0 no text-producing method   *)
(* is accepted, and the cascade always reaches the page-image step.        *)
C22_ZeroPagesAlwaysReachesImages ==
    \A f \in Pdfs :
       (InCascade(f) /\ pages[f] = 0) =>
          /\ written[f] = 0
          /\ pc[f] = "returned" =>
                /\ invoked[f] # << >>
                /\ Last(invoked[f]) = "page-images"

(* C22 amended: when pdf_page_count returns 0 no text-producing method is  *)
(* accepted and nothing is written as text; every method that is available *)
(* is invoked in turn, and the cascade returns from the page-image step    *)
(* unless an exception raised while an intermediate file is read ends it   *)
(* with the [ERROR] status.                                                *)
C22_ZeroPagesNoTextAccepted ==
    \A f \in Pdfs :
       (InCascade(f) /\ pages[f] = 0) =>
          /\ written[f] = 0
          /\ status[f].tag = "OK" => status[f].method = "page-images"
          /\ (pc[f] = "returned" /\ status[f].tag # "ERROR") =>
                /\ invoked[f] # << >>
                /\ Last(invoked[f]) = "page-images"
                /\ \A i \in 1..Len(Methods) :
                      Available(Methods[i]) =>
                         \E j \in 1..Len(invoked[f]) : invoked[f][j] = Methods[i]
                /\ status[f].tag = "OK" <=> outKind[f] = "images"

\* C22 witness: a file of unknown page count went through every method, OCR
\* included, and returned from the page images
C22_Witness ==
    \E f \in Pdfs :
       /\ pc[f] = "returned"
       /\ pages[f] = 0
       /\ Len(invoked[f]) = Len(Methods)
       /\ Last(invoked[f]) = "page-images"
       /\ status[f] = OkStatus("page-images")

\* page_content.split(): the words of a chunk
SplitWords(text) == SelectSeq(text, LAMBDA c : c # " ")

(* C23: word windowing with step S = max(floor, target) yields the windows *)
(* words[0:S], words[S:2S], ...: the windows in order give back exactly    *)
(* the section's words, every window but the last has exactly S words, no  *)
(* window is empty, and the chunk indices are 0, 1, 2, ... without gaps.   *)
C23_WindowsPartitionWords ==
    LET S == WindowStep(wSite, wTarget)
        n == Len(wDocs)
    IN  wPc \in {"loop", "done"} =>
           /\ S >= 1
           /\ \A k \in 1..n :
                 LET ws == SplitWords(wDocs[k].page_content)
                 IN  /\ ws # << >>
                     /\ wDocs[k].chunk = k - 1
                     /\ k < n => Len(ws) = S
                     /\ Len(ws) <= S
                     /\ \A j \in 1..Len(ws) : ws[j] = wWords[(k - 1) * S + j]
           /\ wPc = "done" =>
                 /\ n = NumWindows(wWords, S)
                 /\ wWords # << >> =>
                       (n - 1) * S + Len(SplitWords(wDocs[n].page_content))
                          = Len(wWords)

\* C23 witness: a text gave three windows or more, the last one short
C23_Witness ==
    /\ wPc = "done"
    /\ Len(wDocs) >= 3
    /\ Len(SplitWords(wDocs[Len(wDocs)].page_content))
          < WindowStep(wSite, wTarget)

\* the keywords parse_quiz_filters looks for
BookKeywords == {"algorithm", "goodrich", "tamassia", "discrete", "combinator"}

(* C24: parse_quiz_filters returns as chapters exactly the integers of the *)
(* inclusive range between the two numbers of a "chapters a-b" pattern, in *)
(* either order of a and b; else exactly the number of a "chapter n"       *)
(* pattern; else the empty set, which subset_docs takes as any chapter;    *)
(* and book None, which subset_docs takes as any book, when no book        *)
(* keyword occurs in the text.                                             *)
C24_ChaptersAndBookAsParsed ==
    pPc = "returned" =>
       LET t       == LowerText(pText)
           ranges  == {i \in 1..Len(t) : RangeAt(t, i)}
           singles == {i \in 1..Len(t) : SingleAt(t, i)}
       IN  /\ ranges # {} =>
                 \E i \in ranges :
                    /\ \A j \in ranges : i <= j
                    /\ \A c \in 0..(MaxChapterNo + 1) :
                          c \in pChapters <=>
                             \/ t[i + 2].n <= c /\ c <= RangeEnd(t, i)
                             \/ RangeEnd(t, i) <= c /\ c <= t[i + 2].n
           /\ (ranges = {} /\ singles # {}) =>
                 \E i \in singles :
                    /\ \A j \in singles : i <= j
                    /\ pChapters = {t[i + 2].n}
           /\ (ranges = {} /\ singles = {}) =>
                 /\ pChapters = {}
                 /\ \A d \in QuizDocs : FilterOk(d, "none", pChapters)
           /\ (\A kw \in BookKeywords : ~KeywordIn(kw, t)) =>
                 /\ pBook = "none"
                 /\ subset_docs(QuizDocs, pBook, {}) = QuizDocs
           /\ pText = <<W("CHAPTER"), Ws, Num(3), Ws, EnDash, Ws, Num(1)>> =>
                 pChapters = {1, 2, 3} /\ pBook = "none"
           /\ pText = <<W("Chapter"), Ws, Num(2), Ws,
                        W("chapters"), Ws, Num(1), Hyphen, Num(1)>> =>
                 pChapters = {1}
           /\ pText = <<W("chapters"), Ws, Num(2)>> => pChapters = {}
           /\ pText = <<W("chapter"), Ws, Num(2), W("x")>> => pChapters = {}
           /\ pText = <<W("Chapter"), Ws, Num(2), Ws, W("quiz")>> =>
                 pChapters = {2}

\* C24 witness: a range written from the higher to the lower number was
\* parsed, no book was named
C24_Witness ==
    /\ pPc = "returned"
    /\ Len(pText) = 5
    /\ pText[3].n = 3
    /\ pText[5].n = 1
    /\ pChapters = {1, 2, 3}
    /\ pBook = "none"

(* C25: every embed_family an ingest script writes into manifest.json is   *)
(* accepted by _emb_from_family and mapped to the embedding model and the  *)
(* dimension of the EMBED of the script that wrote it; load_index never    *)
(* raises "Unknown embed_family" for a manifest these scripts wrote.       *)
C25_WrittenFamilyAccepted ==
    /\ ldManifest # "absent" =>
          /\ ldManifest \in EmbedFamilies
          /\ emb_from_family(ldManifest) = fEmbed.dim
          /\ emb_model_from_family(ldManifest) = fEmbed.model
          /\ fEmbed # NoEmbed
    /\ ldRes # "ValueError"

\* C25 witness: load_index returned on the manifest ingest_slides_html wrote
\* with the local model
C25_Witness ==
    /\ ldRes = "returned"
    /\ fScript = "ingest_slides_html"
    /\ ldManifest = "hf:all-MiniLM-L6-v2"
    /\ fEmbed = [model |-> MiniLMModel, dim |-> MiniLMDim]
    /\ ldDim = MiniLMDim

====
